---- MODULE Spec2Model ----
(***************************************************************************)
(* RadixCanvas: the viewport-adaptive rendering engine.                    *)
(*                                                                         *)
(* The module models seven parts of the engine, each with its own          *)
(* specification over a shared set of variables:                           *)
(*   SpecQT     the QuadTree class (utils/quadtree)                        *)
(*   SpecSel    the visibility selectors of the renderers                  *)
(*   SpecCache  the Path2D caches of the renderers                         *)
(*   SpecSched  the frame scheduling of the renderers                      *)
(*   SpecLOD    the level-of-detail choice of renderObject                 *)
(*   SpecPaint  the paint pass: surfaces, context state, outlines          *)
(*   SpecView   the useViewport hook, its callers and the overlays          *)
(* A specification leaves the variables of the other parts unchanged.      *)
(*                                                                         *)
(* Numbers: world coordinates and times are integers (pixels, ms).  The    *)
(* zoom is a rational zoom100/100.  Inputs are chosen so that every        *)
(* division the code performs is exact, except in SpecView, where the      *)
(* quotients of the viewport arithmetic are rounded down.                  *)
(***************************************************************************)
EXTENDS Integers, Sequences, FiniteSets, TLC

VARIABLES
    \* ---- QuadTree instance (utils/quadtree) and its caller
    quadTree,       \* [root, maxObjects, maxLevels]
    objects,        \* the object snapshot (sequence of CanvasObject)
    qtBuilt,        \* rebuild has been called
    qtArg,          \* the list given to the last rebuild, then the objects given
                    \* to insert since
    qtQueried,      \* retrieve has been called since the last rebuild
    qtQuery,        \* the rectangle of the last retrieve
    qtFound,        \* what the last retrieve returned
    qtHit           \* the last queryPoint: [asked, x, y, found]

qtVars == <<quadTree, objects, qtBuilt, qtArg, qtQueried, qtQuery, qtFound, qtHit>>

VARIABLES
    \* ---- a renderer component instance: props and clock
    renderer,       \* which renderer component: "HPR", "ACR", ...
    viewport,       \* [x, y, zoom100]: pan offset and zoom in hundredths
    surface,        \* [width, height] of canvas.getBoundingClientRect()
    isDragging,
    isPanning,
    now,            \* performance.now(), in ms
    lastRenderTime  \* lastRenderTime.current

envVars == <<renderer, viewport, surface, isDragging, isPanning, now, lastRenderTime>>

VARIABLES
    \* ---- the visibility selector of a renderer
    lastQuadTreeUpdate,     \* AdvancedCanvasRenderer: lastQuadTreeUpdate.current
    lastObjectCount,        \* HighPerformanceRenderer: lastObjectCount.current
    shouldRebuildQuadTree,  \* HighPerformanceRenderer: shouldRebuildQuadTree.current
    painted,                \* a paint pass has run for the current props
    drawList                \* the objects of the last paint pass, in paint order

selVars == <<lastQuadTreeUpdate, lastObjectCount, shouldRebuildQuadTree, painted, drawList>>

VARIABLES
    \* ---- the Path2D cache of a renderer
    pathCache,      \* pathCache.current: the keys of the Map, in the Map's insertion order
    pathCacheKeys,  \* pathCacheKeys.current: the key array (HPR) or key Set (UPR), in order
    insertedAt,     \* history: insertedAt[w] is the number of the insertion that last
                    \* stored the signature of width w
    insertCount,    \* history: how many insertions the cache has made
    lastHitKey,     \* history: the key of the latest cache hit, <<>> before the first
    lastEvicted     \* history: the keys the latest getCachedPath call evicted

cacheVars == <<pathCache, pathCacheKeys, insertedAt, insertCount, lastHitKey, lastEvicted>>

VARIABLES
    \* ---- the frame scheduling of a renderer
    mounted,            \* "new", "mounted" or "unmounted"
    renderRequestId,    \* renderRequestId.current, 0 for null
    rafPending,         \* requestAnimationFrame callbacks not yet run: [id, dragging,
                        \* panning, age], the interaction state being the one the
                        \* scheduled render closure was created with and age the
                        \* number of props snapshots that arrived since
    timerPending,       \* setTimeout callbacks not yet run: [id, due, dragging,
                        \* panning, age]
    effectTimeoutId,    \* timeoutId held by the trigger effect's cleanup, 0 for none
    deferred,           \* history: render() calls throttled since the last paint pass
    lastPaintBy,        \* history: "none", "direct", "raf" or "timer"
    lastPaintServed,    \* history: the value of deferred when the last paint ran
    paintedEarly,       \* history: a paint ran before its target interval had elapsed
    paintedAfterTeardown,   \* history: a paint pass drew after the unmount
    cancelledAtTeardown,    \* history: the unmount found a callback pending
    newestPaintedAge,       \* history: the age of the newest snapshot painted so far,
                            \* -1 before the first paint
    paintedOlder,           \* history: a paint drew a snapshot older than one
                            \* painted before it
    supersededCallback      \* history: a props change found a callback pending

schedVars == <<mounted, renderRequestId, rafPending, timerPending, effectTimeoutId,
               deferred, lastPaintBy, lastPaintServed, paintedEarly,
               paintedAfterTeardown, cancelledAtTeardown, newestPaintedAge,
               paintedOlder, supersededCallback>>

VARIABLES
    \* ---- renderObject and its level of detail
    lodObject,      \* the object being drawn
    lodRendered,    \* renderObject has run
    lodLast,        \* the latest renderObject call: [zoom100, dragging, level, ops]
    lodPrevious     \* the call before it: [zoom100, dragging, level], level 0 for none

lodVars == <<lodObject, lodRendered, lodLast, lodPrevious>>

VARIABLES
    \* ---- the paint pass of a renderer and the SelectionOutlines component
    selectedIds,        \* the selectedIds prop, in array order
    draggedObjects,     \* OptimizedCanvas: the draggedObjects prop (ids)
    contextStatePool,   \* AdvancedCanvasRenderer: contextStatePool.current
    canvasReady,        \* per surface: the canvas ref and its 2d context exist
    frame,              \* per surface: the draw calls since its last clearRect
    repainted,          \* the surfaces the last render() cleared and painted
    previousFrame,      \* history: frame before the last render()
    passCount,          \* history: render() calls painted for the current props
    staticChanged,      \* history: the viewport or an object outside the
                        \* manipulated set changed since the last render()
    staticDue,          \* history: staticChanged when the last render() began
    outlineDivs         \* SelectionOutlines: the ids of the rendered outline divs

paintVars == <<selectedIds, draggedObjects, contextStatePool, canvasReady, frame,
               repainted, previousFrame, passCount, staticChanged, staticDue,
               outlineDivs>>

VARIABLES
    \* ---- the useViewport hook and the overlays of InfiniteCanvas; the hook's
    \* state is the variable viewport
    handlerViewport,    \* the viewport of the last React render: what the callbacks
                        \* zoomTo, panTo, handleWheel and handleKeyDown close over
    animation,          \* the pending animation frame of the hook:
                        \* [kind, start, target, startTime], kind "none" for none
    overlays,           \* the overlay positions of the last React render, in
                        \* hundredths of a pixel
    viewEvents,         \* history: the number of zoomTo and panTo calls so far
    earlyFrame          \* history: an animation frame got a timestamp earlier than
                        \* the startTime of its animation

viewVars == <<handlerViewport, animation, overlays, viewEvents, earlyFrame>>

vars == <<qtVars, envVars, selVars, cacheVars, schedVars, lodVars, paintVars, viewVars>>

-----------------------------------------------------------------------------
(* Helpers on sequences *)

Range(s) == {s[i] : i \in 1..Len(s)}

NoDuplicates(s) == \A i, j \in 1..Len(s) : s[i] = s[j] => i = j

RemoveAt(s, i) == SubSeq(s, 1, i - 1) \o SubSeq(s, i + 1, Len(s))

\* all sequences without repetition, of length at most n, over the set S
RECURSIVE InjSeqs(_, _)
InjSeqs(S, n) ==
    IF n = 0 THEN {<<>>}
    ELSE LET shorter == InjSeqs(S, n - 1) IN
         shorter \cup UNION {{Append(s, x) : x \in S \ Range(s)} :
                                 s \in {t \in shorter : Len(t) = n - 1}}

-----------------------------------------------------------------------------
(* Objects and rectangles *)

Rect(x, y, w, h) == [x |-> x, y |-> y, width |-> w, height |-> h]

\* a CanvasObject: bounds, transform translation, visibility and paint layer
Obj(id, x, y, w, h, tx, ty, vis, layer) ==
    [id |-> id, bounds |-> Rect(x, y, w, h), transform |-> [x |-> tx, y |-> ty],
     visible |-> vis, layer |-> layer]

\* the world-space bounds every part of the code computes for an object
objBounds(obj) ==
    Rect(obj.bounds.x + obj.transform.x, obj.bounds.y + obj.transform.y,
         obj.bounds.width, obj.bounds.height)

-----------------------------------------------------------------------------
(* QuadTree *)

Half(v) == v \div 2

NewNode(bounds, level) ==
    [bounds |-> bounds, objects |-> <<>>, children |-> <<>>, level |-> level]

\* constructor
QuadTreeNew(bounds, maxObjects, maxLevels) ==
    [root |-> NewNode(bounds, 0), maxObjects |-> maxObjects, maxLevels |-> maxLevels]

boundsIntersect(bounds1, bounds2) ==
    ~ ( \/ bounds1.x > bounds2.x + bounds2.width
        \/ bounds1.x + bounds1.width < bounds2.x
        \/ bounds1.y > bounds2.y + bounds2.height
        \/ bounds1.y + bounds1.height < bounds2.y )

\* children are kept in the order of the source array: NE, NW, SW, SE
split(node) ==
    LET subWidth == Half(node.bounds.width)
        subHeight == Half(node.bounds.height)
        x == node.bounds.x
        y == node.bounds.y
    IN [node EXCEPT !.children =
          << NewNode(Rect(x + subWidth, y, subWidth, subHeight), node.level + 1),
             NewNode(Rect(x, y, subWidth, subHeight), node.level + 1),
             NewNode(Rect(x, y + subHeight, subWidth, subHeight), node.level + 1),
             NewNode(Rect(x + subWidth, y + subHeight, subWidth, subHeight), node.level + 1) >>]

\* the quadrant index 0..3 of the source, or -1
getIndex(node, obj) ==
    LET ob == objBounds(obj)
        verticalMidpoint == node.bounds.x + Half(node.bounds.width)
        horizontalMidpoint == node.bounds.y + Half(node.bounds.height)
        topQuadrant == ob.y < horizontalMidpoint /\ ob.y + ob.height < horizontalMidpoint
        bottomQuadrant == ob.y > horizontalMidpoint
    IN IF ob.x < verticalMidpoint /\ ob.x + ob.width < verticalMidpoint
       THEN (IF topQuadrant THEN 1 ELSE IF bottomQuadrant THEN 2 ELSE -1)
       ELSE IF ob.x > verticalMidpoint
       THEN (IF topQuadrant THEN 0 ELSE IF bottomQuadrant THEN 3 ELSE -1)
       ELSE -1

RECURSIVE insertObject(_, _, _, _)
RECURSIVE redistribute(_, _, _, _)

\* the while loop of insertObject: move down every object that fits a quadrant
redistribute(node, i, maxObjects, maxLevels) ==
    IF i > Len(node.objects) THEN node
    ELSE LET index == getIndex(node, node.objects[i]) IN
         IF index # -1
         THEN redistribute(
                [node EXCEPT !.objects = RemoveAt(@, i),
                             !.children[index + 1] =
                                 insertObject(@, node.objects[i], maxObjects, maxLevels)],
                i, maxObjects, maxLevels)
         ELSE redistribute(node, i + 1, maxObjects, maxLevels)

\* insertObject splitting a node of level maxLevels too
insertObject_SplitsAtMaxLevel(node, obj, maxObjects, maxLevels) ==
    LET index == IF node.children # <<>> THEN getIndex(node, obj) ELSE -1 IN
    IF index # -1
    THEN [node EXCEPT !.children[index + 1] = insertObject(@, obj, maxObjects, maxLevels)]
    ELSE LET pushed == [node EXCEPT !.objects = Append(@, obj)] IN
         IF Len(pushed.objects) > maxObjects /\ node.level <= maxLevels
         THEN redistribute(IF pushed.children = <<>> THEN split(pushed) ELSE pushed,
                           1, maxObjects, maxLevels)
         ELSE pushed

insertObject(node, obj, maxObjects, maxLevels) ==
    LET index == IF node.children # <<>> THEN getIndex(node, obj) ELSE -1 IN
    IF index # -1
    THEN [node EXCEPT !.children[index + 1] = insertObject(@, obj, maxObjects, maxLevels)]
    ELSE LET pushed == [node EXCEPT !.objects = Append(@, obj)] IN
         IF Len(pushed.objects) > maxObjects /\ node.level < maxLevels
         THEN redistribute(IF pushed.children = <<>> THEN split(pushed) ELSE pushed,
                           1, maxObjects, maxLevels)
         ELSE pushed

insert(qt, obj) ==
    [qt EXCEPT !.root = insertObject(@, obj, qt.maxObjects, qt.maxLevels)]

\* clear: the root keeps its bounds and level and loses objects and children
clear(qt) == [qt EXCEPT !.root = NewNode(@.bounds, @.level)]

RECURSIVE insertAllVisible(_, _)
\* objects.forEach(obj => { if (obj.visible) this.insert(obj) }); each step is
\* evaluated before the next one (the root is, and stays, the node of level 0)
insertAllVisible(qt, objs) ==
    IF objs = <<>> THEN qt
    ELSE LET next == IF Head(objs).visible THEN insert(qt, Head(objs)) ELSE qt IN
         CASE next.root.level = 0 -> insertAllVisible(next, Tail(objs))

rebuild(qt, objs) == insertAllVisible(clear(qt), objs)

RECURSIVE retrieveObjects(_, _)
RECURSIVE retrieveChildren(_, _, _)

retrieveChildren(children, k, bounds) ==
    IF k > Len(children) THEN <<>>
    ELSE retrieveObjects(children[k], bounds) \o retrieveChildren(children, k + 1, bounds)

\* the objects retrieveObjects pushes to returnObjects, in push order
retrieveObjects(node, bounds) ==
    IF ~boundsIntersect(node.bounds, bounds) THEN <<>>
    ELSE SelectSeq(node.objects, LAMBDA obj : boundsIntersect(objBounds(obj), bounds))
         \o retrieveChildren(node.children, 1, bounds)

retrieve(qt, bounds) == retrieveObjects(qt.root, bounds)

pointInBounds(x, y, bounds) ==
    /\ x >= bounds.x
    /\ x <= bounds.x + bounds.width
    /\ y >= bounds.y
    /\ y <= bounds.y + bounds.height

RECURSIVE queryPointRecursive(_, _, _)
RECURSIVE queryPointChildren(_, _, _, _)

\* the loop over node.children of queryPointRecursive
queryPointChildren(children, k, x, y) ==
    IF k > Len(children) THEN <<>>
    ELSE queryPointRecursive(children[k], x, y) \o queryPointChildren(children, k + 1, x, y)

\* the objects queryPointRecursive pushes to returnObjects, in push order
queryPointRecursive(node, x, y) ==
    IF ~pointInBounds(x, y, node.bounds) THEN <<>>
    ELSE SelectSeq(node.objects, LAMBDA obj : pointInBounds(x, y, objBounds(obj)))
         \o queryPointChildren(node.children, 1, x, y)

queryPoint(qt, x, y) == queryPointRecursive(qt.root, x, y)

\* no queryPoint call yet
NoHit == [asked |-> FALSE, x |-> 0, y |-> 0, found |-> <<>>]

-----------------------------------------------------------------------------
(* SpecQT: one QuadTree, rebuilt from a snapshot and queried *)

QTMaxObjs == 4          \* longest snapshot given to rebuild
QTNodeCapacity == 2     \* the constructor's maxObjects of the instance under test
QTDepth == 2            \* the constructor's maxLevels of the instance under test

QTRoot == Rect(-8, -8, 16, 16)

\* objects inside the root, on its split lines, outside it, moved by a transform
\* and hidden
QTObjects ==
    { Obj(1, -6, -6, 2, 2, 0, 0, TRUE, 0),      \* north-west
      Obj(2, 2, 2, 3, 3, 0, 0, TRUE, 0),        \* south-east
      Obj(3, -1, -1, 2, 2, 0, 0, TRUE, 0),      \* straddles the centre
      Obj(4, 12, 12, 2, 2, 0, 0, TRUE, 0),      \* outside the root
      Obj(5, 0, -7, 2, 2, 3, 0, TRUE, 0),       \* north-east after its transform
      Obj(6, 5, 5, 1, 1, 0, 0, TRUE, 0),        \* south-east of south-east
      Obj(7, -20, 1, 30, 1, 0, 0, TRUE, 0),     \* starts left of the root, crosses it
      Obj(8, -7, -7, 1, 1, 0, 0, FALSE, 0) }    \* hidden

\* objects given to insert one at a time: two coincident zero-area objects and
\* one of negative dimensions, all in the south-east of the south-east quadrant
QTInserts ==
    { Obj(9, 6, 6, 0, 0, 0, 0, TRUE, 0),
      Obj(10, 6, 6, 0, 0, 0, 0, TRUE, 0),
      Obj(11, 7, 7, -1, -1, 0, 0, TRUE, 0) }

\* points: in an object outside the root, the root's centre, a corner of
\* object 1, the place of the zero-area objects, and a point in no object
QTPoints ==
    { [x |-> 13, y |-> 13], [x |-> 0, y |-> 0], [x |-> -6, y |-> -6],
      [x |-> 6, y |-> 6], [x |-> -3, y |-> 6] }

QTQueries ==
    { Rect(-8, -8, 16, 16),     \* the root rectangle
      Rect(11, 11, 4, 4),       \* outside the root
      Rect(-2, -2, 4, 4),       \* around the centre
      Rect(4, 4, 4, 4),
      Rect(-7, -7, 0, 0),       \* a point
      Rect(-30, 0, 15, 3) }     \* left of the root

\* the variables of the renderer, when no renderer is modelled
EnvIdle ==
    /\ renderer = "none"
    /\ viewport = [x |-> 0, y |-> 0, zoom100 |-> 100]
    /\ surface = [width |-> 800, height |-> 600]
    /\ isDragging = FALSE
    /\ isPanning = FALSE
    /\ now = 0
    /\ lastRenderTime = 0

SelIdle ==
    /\ lastQuadTreeUpdate = 0
    /\ lastObjectCount = 0
    /\ shouldRebuildQuadTree = TRUE
    /\ painted = FALSE
    /\ drawList = <<>>

CacheIdle ==
    /\ pathCache = <<>>
    /\ pathCacheKeys = <<>>
    /\ insertedAt = <<>>
    /\ insertCount = 0
    /\ lastHitKey = <<>>
    /\ lastEvicted = <<>>

SchedIdle ==
    /\ mounted = "new"
    /\ renderRequestId = 0
    /\ rafPending = {}
    /\ timerPending = {}
    /\ effectTimeoutId = 0
    /\ deferred = 0
    /\ lastPaintBy = "none"
    /\ lastPaintServed = 0
    /\ paintedEarly = FALSE
    /\ paintedAfterTeardown = FALSE
    /\ cancelledAtTeardown = FALSE
    /\ newestPaintedAge = -1
    /\ paintedOlder = FALSE
    /\ supersededCallback = FALSE

LodIdle ==
    /\ lodObject = [type |-> "rectangle"]
    /\ lodRendered = FALSE
    /\ lodLast = [zoom100 |-> 100, dragging |-> FALSE, level |-> 0, ops |-> <<>>]
    /\ lodPrevious = [zoom100 |-> 100, dragging |-> FALSE, level |-> 0]

NoFrame == [static |-> <<>>, dynamic |-> <<>>, overlay |-> <<>>]

PaintIdle ==
    /\ selectedIds = <<>>
    /\ draggedObjects = {}
    /\ contextStatePool = [fillStyle |-> "", strokeStyle |-> "", lineWidth |-> 0,
                           globalAlpha |-> 100, font |-> ""]
    /\ canvasReady = [static |-> TRUE, dynamic |-> TRUE, overlay |-> TRUE]
    /\ frame = NoFrame
    /\ repainted = {}
    /\ previousFrame = NoFrame
    /\ passCount = 0
    /\ staticChanged = FALSE
    /\ staticDue = FALSE
    /\ outlineDivs = <<>>

\* useViewport: const DEFAULT_VIEWPORT (its bounds field is never read)
DEFAULT_VIEWPORT == [x |-> 0, y |-> 0, zoom100 |-> 100]

NoAnimation ==
    [kind |-> "none", start |-> DEFAULT_VIEWPORT, target |-> DEFAULT_VIEWPORT,
     startTime |-> 0]

NoOverlays ==
    [rendered |-> FALSE, outlineLeft |-> 0, outlineTop |-> 0, outlineWidth |-> 0,
     boxLeft |-> 0, boxTop |-> 0, handleLeft |-> 0, handleTop |-> 0]

ViewIdle ==
    /\ handlerViewport = DEFAULT_VIEWPORT
    /\ animation = NoAnimation
    /\ overlays = NoOverlays
    /\ viewEvents = 0
    /\ earlyFrame = FALSE

InitQT ==
    /\ EnvIdle /\ SelIdle /\ CacheIdle /\ SchedIdle /\ LodIdle /\ PaintIdle
    /\ quadTree = QuadTreeNew(QTRoot, QTNodeCapacity, QTDepth)
    /\ objects \in InjSeqs(QTObjects, QTMaxObjs)
    /\ qtBuilt = FALSE
    /\ qtArg = <<>>
    /\ qtQueried = FALSE
    /\ qtQuery = Rect(0, 0, 0, 0)
    /\ qtFound = <<>>
    /\ qtHit = NoHit
    /\ ViewIdle

\* quadTree.rebuild(objects)
Rebuild ==
    /\ quadTree' = rebuild(quadTree, objects)
    /\ qtBuilt' = TRUE
    /\ qtArg' = objects
    /\ qtQueried' = FALSE
    /\ qtFound' = <<>>
    /\ qtQuery' = Rect(0, 0, 0, 0)
    /\ qtHit' = NoHit
    /\ UNCHANGED objects

\* quadTree.insert(obj), for an object the tree does not hold; the calls are
\* bounded by the length of the longest snapshot
Insert(obj) ==
    /\ qtBuilt
    /\ Len(qtArg) < QTMaxObjs
    /\ obj \notin Range(qtArg)
    /\ quadTree' = insert(quadTree, obj)
    /\ qtArg' = Append(qtArg, obj)
    /\ qtQueried' = FALSE
    /\ qtFound' = <<>>
    /\ qtQuery' = Rect(0, 0, 0, 0)
    /\ qtHit' = NoHit
    /\ UNCHANGED <<objects, qtBuilt>>

\* quadTree.retrieve(bounds)
Retrieve(bounds) ==
    /\ qtBuilt
    /\ qtQueried' = TRUE
    /\ qtQuery' = bounds
    /\ qtFound' = retrieve(quadTree, bounds)
    /\ qtHit' = NoHit
    /\ UNCHANGED <<quadTree, objects, qtBuilt, qtArg>>

\* quadTree.queryPoint(x, y)
QueryPoint(p) ==
    /\ qtBuilt
    /\ qtHit' = [asked |-> TRUE, x |-> p.x, y |-> p.y, found |-> queryPoint(quadTree, p.x, p.y)]
    /\ qtQueried' = FALSE
    /\ qtFound' = <<>>
    /\ qtQuery' = Rect(0, 0, 0, 0)
    /\ UNCHANGED <<quadTree, objects, qtBuilt, qtArg>>

NextQT ==
    \/ Rebuild /\ UNCHANGED <<envVars, selVars, cacheVars, schedVars, lodVars, paintVars, viewVars>>
    \/ \E b \in QTQueries : Retrieve(b) /\ UNCHANGED <<envVars, selVars, cacheVars, schedVars, lodVars, paintVars, viewVars>>
    \/ \E obj \in QTInserts : Insert(obj) /\ UNCHANGED <<envVars, selVars, cacheVars, schedVars, lodVars, paintVars, viewVars>>
    \/ \E p \in QTPoints : QueryPoint(p) /\ UNCHANGED <<envVars, selVars, cacheVars, schedVars, lodVars, paintVars, viewVars>>

SpecQT == InitQT /\ [][NextQT]_vars

\* the brute-force reference: a linear filter with the same intersection test
BruteForce(objs, bounds) ==
    {o \in Range(objs) : o.visible /\ boundsIntersect(objBounds(o), bounds)}

\* C1: retrieve(rect) after rebuild(objects) returns exactly the visible objects
\* whose world-space bounds intersect rect, each once, whatever the positions of
\* the objects, inside the root rectangle or not.
C1_RetrieveMatchesBruteForce ==
    qtQueried =>
        /\ NoDuplicates(qtFound)
        /\ Range(qtFound) = BruteForce(qtArg, qtQuery)

RECURSIVE StoredObjects(_)
RECURSIVE StoredInChildren(_, _)

StoredInChildren(children, k) ==
    IF k > Len(children) THEN <<>>
    ELSE StoredObjects(children[k]) \o StoredInChildren(children, k + 1)

\* the objects arrays of all the nodes under node, concatenated
StoredObjects(node) == node.objects \o StoredInChildren(node.children, 1)

RECURSIVE Nodes(_)
\* all the nodes under node
Nodes(node) == {node} \cup UNION {Nodes(node.children[k]) : k \in 1..Len(node.children)}

VisibleOf(objs) == {o \in Range(objs) : o.visible}

\* the tree holds what the last rebuild(objects) made of it
JustRebuilt == qtBuilt /\ qtArg = objects

\* C21 (as stated): after rebuild(objects) a query over the root bounds returns
\* as many objects as the argument has visible objects.
C21_WorldQueryReturnsAll ==
    (JustRebuilt /\ qtQueried /\ qtQuery = QTRoot) =>
        Len(qtFound) = Cardinality(VisibleOf(objects))

\* C21 (amended): after rebuild(objects), whatever the tree held before, the tree
\* stores exactly the visible objects of the argument, each in exactly one node,
\* and a query over the root bounds returns, each once, those of them whose
\* world-space bounds intersect the root rectangle.
C21_RebuildStoresVisible ==
    JustRebuilt =>
        /\ NoDuplicates(StoredObjects(quadTree.root))
        /\ Range(StoredObjects(quadTree.root)) = VisibleOf(objects)
        /\ (qtQueried /\ qtQuery = QTRoot) =>
              /\ NoDuplicates(qtFound)
              /\ Range(qtFound) =
                    {o \in VisibleOf(objects) : boundsIntersect(objBounds(o), QTRoot)}

\* a rebuilt tree of several nodes, from a snapshot with a hidden object and an
\* object outside the root, queried over the root bounds
C21_Witness ==
    /\ JustRebuilt /\ qtQueried /\ qtQuery = QTRoot
    /\ quadTree.root.children # <<>>
    /\ \E o \in Range(objects) : ~o.visible
    /\ \E o \in VisibleOf(objects) : ~boundsIntersect(objBounds(o), QTRoot)
    /\ Len(qtFound) >= 2

\* the linear scan over the stored objects with the same point test
LinearScan(objs, x, y) ==
    {o \in VisibleOf(objs) : pointInBounds(x, y, objBounds(o))}

\* C22: queryPoint(x, y) returns exactly the stored objects whose world-space
\* bounds contain the point, edges inclusive, each once.
C22_QueryPointMatchesLinearScan ==
    qtHit.asked =>
        /\ NoDuplicates(qtHit.found)
        /\ Range(qtHit.found) = LinearScan(qtArg, qtHit.x, qtHit.y)

\* C22 for the points of the root rectangle
C22_InsideRootMatches ==
    (qtHit.asked /\ pointInBounds(qtHit.x, qtHit.y, QTRoot)) =>
        C22_QueryPointMatchesLinearScan

\* rectangle inner lies entirely inside rectangle outer, edges included
Inside(inner, outer) ==
    /\ inner.x >= outer.x
    /\ inner.y >= outer.y
    /\ inner.x + inner.width <= outer.x + outer.width
    /\ inner.y + inner.height <= outer.y + outer.height

\* C25: every stored object's world-space box lies inside the rectangle of the
\* node that stores it and, when the node has children, inside no child quadrant.
C25_StoredInDeepestContainingNode ==
    \A n \in Nodes(quadTree.root) : \A i \in 1..Len(n.objects) :
        /\ Inside(objBounds(n.objects[i]), n.bounds)
        /\ \A k \in 1..Len(n.children) :
              ~Inside(objBounds(n.objects[i]), n.children[k].bounds)

\* C25 restricted to the objects whose box lies inside the root rectangle, with
\* the quadrant test of getIndex in place of containment
C25_InsideRootStoredWhereGetIndexPuts ==
    \A n \in Nodes(quadTree.root) : \A i \in 1..Len(n.objects) :
        Inside(objBounds(n.objects[i]), QTRoot) =>
            /\ Inside(objBounds(n.objects[i]), n.bounds)
            /\ n.children # <<>> => getIndex(n, n.objects[i]) = -1

\* C26: no node has a level greater than maxLevels; a node of level maxLevels
\* does not split, however many objects it holds.
C26_DepthBounded ==
    \A n \in Nodes(quadTree.root) :
        /\ n.level <= quadTree.maxLevels
        /\ n.level = quadTree.maxLevels => n.children = <<>>

\* a node of level maxLevels holding more than maxObjects objects, a zero-area
\* one and one of negative dimensions among them
C26_Witness ==
    \E n \in Nodes(quadTree.root) :
        /\ n.level = quadTree.maxLevels
        /\ Len(n.objects) > quadTree.maxObjects
        /\ \E i, j \in 1..Len(n.objects) :
              /\ n.objects[i].bounds.width = 0
              /\ n.objects[j].bounds.width < 0

-----------------------------------------------------------------------------
(* The visibility selectors: HighPerformanceRenderer and AdvancedCanvasRenderer *)

\* v / viewport.zoom; the model's viewports and surfaces make it exact
DivZoom(v, zoom100) == (v * 100) \div zoom100

\* the viewport's visible world rectangle: origin -pan/zoom, extent size/zoom
VisibleWorldRect(vp, rect) ==
    Rect(DivZoom(-vp.x, vp.zoom100), DivZoom(-vp.y, vp.zoom100),
         DivZoom(rect.width, vp.zoom100), DivZoom(rect.height, vp.zoom100))

RECURSIVE insertByLayer(_, _)
insertByLayer(sorted, obj) ==
    IF sorted = <<>> THEN <<obj>>
    ELSE IF Head(sorted).layer <= obj.layer
         THEN <<Head(sorted)>> \o insertByLayer(Tail(sorted), obj)
         ELSE <<obj>> \o sorted

RECURSIVE sortByLayer(_)
\* Array.prototype.sort((a, b) => a.layer - b.layer): stable
sortByLayer(s) ==
    IF s = <<>> THEN <<>>
    ELSE insertByLayer(sortByLayer(SubSeq(s, 1, Len(s) - 1)), s[Len(s)])

HPRRoot == Rect(-20000, -20000, 40000, 40000)
ACRRoot == Rect(-10000, -10000, 20000, 20000)
RendererMaxObjects == 8
RendererMaxLevels == 12
ACRRebuildInterval == 100
ACRIndexThreshold == 50

\* HighPerformanceRenderer.getVisibleObjects: the query rectangle
HPRViewBounds(vp, rect, dragging, panning) ==
    LET margin == IF dragging THEN 200 ELSE IF panning THEN 100 ELSE 50 IN
    Rect(DivZoom(-vp.x, vp.zoom100) - margin,
         DivZoom(-vp.y, vp.zoom100) - margin,
         DivZoom(rect.width, vp.zoom100) + margin * 2,
         DivZoom(rect.height, vp.zoom100) + margin * 2)

HPRGetVisibleObjects(qt, vp, rect, dragging, panning) ==
    SelectSeq(retrieve(qt, HPRViewBounds(vp, rect, dragging, panning)),
              LAMBDA obj : obj.visible)

\* AdvancedCanvasRenderer.getVisibleObjects: the query rectangle
ACRQueryBounds(vp, rect, dragging, panning) ==
    LET viewLeft == DivZoom(-vp.x, vp.zoom100)
        viewTop == DivZoom(-vp.y, vp.zoom100)
        viewRight == viewLeft + DivZoom(rect.width, vp.zoom100)
        viewBottom == viewTop + DivZoom(rect.height, vp.zoom100)
        \* marginMultiplier 0.5, 0.3, 0.1 in tenths
        marginMultiplier10 == IF dragging THEN 5 ELSE IF panning THEN 3 ELSE 1
        marginX == (DivZoom(rect.width, vp.zoom100) * marginMultiplier10) \div 10
        marginY == (DivZoom(rect.height, vp.zoom100) * marginMultiplier10) \div 10
    IN Rect(viewLeft - marginX, viewTop - marginY,
            (viewRight - viewLeft) + marginX * 2,
            (viewBottom - viewTop) + marginY * 2)

\* the linear fallback's test of one object against the query rectangle
ACRLinearTest(obj, queryBounds) ==
    LET objX == obj.bounds.x + obj.transform.x
        objY == obj.bounds.y + obj.transform.y
    IN ~ ( \/ objX + obj.bounds.width < queryBounds.x
           \/ objX > queryBounds.x + queryBounds.width
           \/ objY + obj.bounds.height < queryBounds.y
           \/ objY > queryBounds.y + queryBounds.height )

\* the index path without its objectList.includes(obj) test
ACRGetVisibleObjects_NoIncludes(qt, objectList, queryBounds) ==
    IF Len(objectList) > ACRIndexThreshold
    THEN SelectSeq(retrieve(qt, queryBounds), LAMBDA obj : obj.visible)
    ELSE SelectSeq(objectList,
                   LAMBDA obj : obj.visible /\ ACRLinearTest(obj, queryBounds))

\* AdvancedCanvasRenderer.getVisibleObjects after its throttled rebuild
ACRGetVisibleObjects(qt, objectList, queryBounds) ==
    IF Len(objectList) > ACRIndexThreshold
    THEN SelectSeq(retrieve(qt, queryBounds),
                   LAMBDA obj : obj.visible /\ obj \in Range(objectList))
    ELSE SelectSeq(objectList,
                   LAMBDA obj : obj.visible /\ ACRLinearTest(obj, queryBounds))

\* the frame interval render() compares with
TargetFrameTime(r, dragging, panning, objs) ==
    LET visibleCount == Len(SelectSeq(objs, LAMBDA o : o.visible)) IN
    CASE r = "ACR" -> (IF dragging THEN 6 ELSE IF panning THEN 8 ELSE 12)
      [] r = "HPR" -> 8
      [] r = "UPR" -> 8
      [] r = "MOR" -> (IF dragging THEN 8 ELSE IF panning THEN 12 ELSE 16)
      [] r = "CR" -> (IF dragging THEN 8 ELSE IF panning THEN 16
                      ELSE IF visibleCount > 300 THEN 25
                      ELSE IF visibleCount > 150 THEN 20 ELSE 16)
      [] r = "OC" -> (IF Len(objs) > 200 THEN 33 ELSE 16)
      [] r = "SCR" -> 0      \* no frame limit

ObjA == Obj(1, 0, 0, 50, 50, 0, 0, TRUE, 1)
ObjAMoved == Obj(1, 0, 0, 50, 50, 100, 0, TRUE, 1)
ObjB == Obj(2, 10000, 10000, 50, 50, 0, 0, TRUE, 0)
ObjFar == Obj(3, 30000, 100, 50, 50, 0, 0, TRUE, 0)
ObjHidden == Obj(4, 10, 10, 50, 50, 0, 0, FALSE, 0)
ObjShown == Obj(4, 10, 10, 50, 50, 0, 0, TRUE, 0)

\* a grid of objects around the origin, enough of them for the index path
Filler == [i \in 1..(ACRIndexThreshold - 1) |->
              Obj(100 + i, ((i % 7) - 3) * 1000, ((i \div 7) - 3) * 1000, 50, 50,
                  0, 0, TRUE, i % 3)]

Scenes ==
    { <<ObjA, ObjB>>,
      <<ObjAMoved, ObjB, ObjFar, ObjHidden>>,
      Filler \o <<ObjA, ObjB, ObjHidden>>,
      Filler \o <<ObjAMoved, ObjB, ObjFar>>,
      Filler \o <<ObjA, ObjB, ObjShown>> }

Viewports ==
    { [x |-> 0, y |-> 0, zoom100 |-> 100],
      [x |-> -30000, y |-> 0, zoom100 |-> 100],
      [x |-> -5000, y |-> -5000, zoom100 |-> 50],
      [x |-> 0, y |-> 0, zoom100 |-> 200],
      [x |-> 0, y |-> 0, zoom100 |-> 20] }

SelHorizon == 104       \* the clock runs this far past the mount

\* the state after the component has mounted
InitSel ==
    /\ CacheIdle /\ SchedIdle /\ LodIdle /\ PaintIdle
    /\ renderer \in {"HPR", "ACR"}
    /\ objects \in Scenes
    /\ viewport \in Viewports
    /\ surface = [width |-> 800, height |-> 600]
    /\ isDragging \in BOOLEAN
    /\ isPanning \in BOOLEAN
    /\ ~(isDragging /\ isPanning)
    /\ now = 1000
    /\ lastRenderTime = 0
    /\ lastQuadTreeUpdate = 0
    \* HighPerformanceRenderer: the first useMemo rebuilds, the effect sets the flag
    /\ quadTree = IF renderer = "HPR"
                  THEN rebuild(QuadTreeNew(HPRRoot, RendererMaxObjects, RendererMaxLevels),
                               objects)
                  ELSE QuadTreeNew(ACRRoot, RendererMaxObjects, RendererMaxLevels)
    /\ lastObjectCount = IF renderer = "HPR" THEN Len(objects) ELSE 0
    /\ shouldRebuildQuadTree = TRUE
    /\ painted = FALSE
    /\ drawList = <<>>
    /\ qtBuilt = FALSE /\ qtArg = <<>> /\ qtQueried = FALSE
    /\ qtQuery = Rect(0, 0, 0, 0) /\ qtFound = <<>>
    /\ qtHit = NoHit
    /\ ViewIdle

\* the objects prop changes: HighPerformanceRenderer's useMemo and effect run
SetObjects(objs) ==
    /\ objs # objects
    /\ objects' = objs
    /\ IF renderer = "HPR"
       THEN IF Len(objs) # lastObjectCount \/ shouldRebuildQuadTree
            THEN /\ quadTree' = rebuild(quadTree, objs)
                 /\ lastObjectCount' = Len(objs)
            ELSE UNCHANGED <<quadTree, lastObjectCount>>
       ELSE UNCHANGED <<quadTree, lastObjectCount>>
    /\ shouldRebuildQuadTree' = TRUE
    /\ painted' = FALSE
    /\ drawList' = <<>>
    /\ UNCHANGED <<envVars, cacheVars, schedVars, lodVars, paintVars, viewVars, lastQuadTreeUpdate,
                   qtBuilt, qtArg, qtQueried, qtQuery, qtFound, qtHit>>

\* render() past its throttle: getVisibleObjects and the sort by layer
PaintPass ==
    /\ now - lastRenderTime >= TargetFrameTime(renderer, isDragging, isPanning, objects)
    /\ LET stale == renderer = "ACR" /\ now - lastQuadTreeUpdate > ACRRebuildInterval
           qt == IF stale THEN rebuild(quadTree, objects) ELSE quadTree
       IN /\ quadTree' = qt
          /\ lastQuadTreeUpdate' = IF stale THEN now ELSE lastQuadTreeUpdate
          /\ drawList' = sortByLayer(
                IF renderer = "HPR"
                THEN HPRGetVisibleObjects(qt, viewport, surface, isDragging, isPanning)
                ELSE ACRGetVisibleObjects(qt, objects,
                        ACRQueryBounds(viewport, surface, isDragging, isPanning)))
    /\ painted' = TRUE
    /\ lastRenderTime' = now
    /\ UNCHANGED <<cacheVars, schedVars, lodVars, paintVars, viewVars, objects, renderer, viewport, surface, isDragging, isPanning,
                   now, lastObjectCount, shouldRebuildQuadTree,
                   qtBuilt, qtArg, qtQueried, qtQuery, qtFound, qtHit>>

\* time passes
SelTick(d) ==
    /\ now + d <= 1000 + SelHorizon
    /\ now' = now + d
    /\ UNCHANGED <<qtVars, selVars, cacheVars, schedVars, lodVars, paintVars, viewVars, renderer, viewport, surface, isDragging, isPanning,
                   lastRenderTime>>

NextSel ==
    \/ \E objs \in Scenes : SetObjects(objs)
    \/ PaintPass
    \/ \E d \in {52, 104} : SelTick(d)

SpecSel == InitSel /\ [][NextSel]_vars

\* the linear reference on the snapshot being painted
LinearVisible(queryBounds) ==
    {o \in Range(objects) : o.visible /\ boundsIntersect(objBounds(o), queryBounds)}

SelQueryBounds ==
    IF renderer = "HPR" THEN HPRViewBounds(viewport, surface, isDragging, isPanning)
    ELSE ACRQueryBounds(viewport, surface, isDragging, isPanning)

\* C2: the draw list holds every visible object that intersects the viewport's
\* visible world rectangle and nothing outside the margin-expanded query
\* rectangle, and is the set the linear filter gives for the same inputs.
C2_DrawListIsCulledSnapshot ==
    painted =>
        /\ LinearVisible(VisibleWorldRect(viewport, surface)) \subseteq Range(drawList)
        /\ \A o \in Range(drawList) : boundsIntersect(objBounds(o), SelQueryBounds)
        /\ Range(drawList) = LinearVisible(SelQueryBounds)

\* the position of an object in the snapshot being painted
SnapshotIndex(o) == CHOOSE i \in 1..Len(objects) : objects[i].id = o.id

\* the renderer took the index path for the last paint
IndexQueried ==
    renderer = "HPR" \/ (renderer = "ACR" /\ Len(objects) > ACRIndexThreshold)

\* C13: the draw list is painted in ascending layer order, and objects of one
\* layer keep the order they have in the snapshot, on the index path and on
\* the linear path alike.
C13_LayerOrderStable ==
    painted =>
        \A i, j \in 1..Len(drawList) :
            i < j =>
                /\ drawList[i].layer <= drawList[j].layer
                /\ drawList[i].layer = drawList[j].layer
                       => SnapshotIndex(drawList[i]) < SnapshotIndex(drawList[j])

\* C13 holds on the linear path
C13_LinearPathStable == (~IndexQueried) => C13_LayerOrderStable

C13_LinearWitness ==
    /\ painted /\ ~IndexQueried
    /\ \E i, j \in 1..Len(drawList) : i < j /\ drawList[i].layer # drawList[j].layer

RECURSIVE IndexContents(_)
\* every object some node of the index holds
IndexContents(node) ==
    Range(node.objects)
        \cup UNION {IndexContents(node.children[k]) : k \in 1..Len(node.children)}

\* a rebuild from the snapshot being painted would index all its visible
\* objects: none of them is lost by insertion
FreshIndexComplete ==
    IndexContents(rebuild(quadTree, objects).root) = {o \in Range(objects) : o.visible}

\* C16: whenever the index is queried for a paint, it holds exactly the visible
\* objects of the snapshot being painted (here for the snapshots whose visible
\* objects a rebuild indexes without loss).
C16_IndexConsistentWhenQueried ==
    (painted /\ IndexQueried /\ FreshIndexComplete) =>
        IndexContents(quadTree.root) = {o \in Range(objects) : o.visible}

\* C16 for HighPerformanceRenderer alone: its index is rebuilt on every change
C16_HPRIndexFresh ==
    (renderer = "HPR" /\ FreshIndexComplete) =>
        IndexContents(quadTree.root) = {o \in Range(objects) : o.visible}

\* C17: a paint that queries an index older than the snapshot puts no object
\* into the draw list that the snapshot does not hold or holds hidden.
C17_StaleIndexYieldsNoGhosts ==
    painted => \A o \in Range(drawList) : o \in Range(objects) /\ o.visible

\* a paint whose query returned a candidate the snapshot no longer holds, and
\* one whose candidate is hidden in the snapshot
C17_Witness ==
    /\ painted /\ renderer = "ACR" /\ Len(objects) > ACRIndexThreshold
    /\ \E o \in Range(retrieve(quadTree, SelQueryBounds)) :
           o.visible /\ o \notin Range(objects)

C17_WitnessHidden ==
    /\ painted /\ renderer = "ACR" /\ Len(objects) > ACRIndexThreshold
    /\ \E o \in Range(retrieve(quadTree, SelQueryBounds)) :
           o.visible /\ \E h \in Range(objects) : h.id = o.id /\ ~h.visible

-----------------------------------------------------------------------------
(* The Path2D caches: HighPerformanceRenderer, UltraPerformanceRenderer and *)
(* AdvancedCanvasRenderer.  A Map is the sequence of its keys in insertion  *)
(* order; the cached Path2D is a function of the key and is left out.       *)

\* the fields of a CanvasObject that the caches read
Shape(type, w, h, cornerRadius) ==
    [type |-> type, bounds |-> Rect(0, 0, w, h), style |-> [cornerRadius |-> cornerRadius]]

\* `${type}-${bounds.width}-${bounds.height}-${style.cornerRadius || 0}`
generatePathKey(obj) ==
    <<obj.type, obj.bounds.width, obj.bounds.height, obj.style.cornerRadius>>

Has(keys, key) == \E i \in 1..Len(keys) : keys[i] = key
Delete(keys, key) == SelectSeq(keys, LAMBDA k : k # key)

HPRCacheCapacity == 500
MAX_CACHE_SIZE == 1000
ACRCacheCapacity == 1000
ACREvictBatch == 200

\* what a getCachedPath call leaves behind and returns
CacheResult(cache, keys, hit, path, evicted) ==
    [pathCache |-> cache, pathCacheKeys |-> keys, hit |-> hit, path |-> path,
     evicted |-> evicted]

\* a variant whose overflow shifts the key array and leaves the Map entry
HPRGetCachedPath_KeepsEntry(cache, keys, obj) ==
    LET key == generatePathKey(obj) IN
    IF Has(cache, key) THEN CacheResult(cache, keys, TRUE, TRUE, <<>>)
    ELSE IF obj.type \notin {"rectangle", "circle"}
    THEN CacheResult(cache, keys, FALSE, FALSE, <<>>)
    ELSE LET cache1 == Append(cache, key)
             keys1 == Append(keys, key)
         IN IF Len(keys1) > HPRCacheCapacity
            THEN CacheResult(cache1, Tail(keys1), FALSE, TRUE, <<>>)
            ELSE CacheResult(cache1, keys1, FALSE, TRUE, <<>>)

\* HighPerformanceRenderer.getCachedPath: Map plus key array
HPRGetCachedPath(cache, keys, obj) ==
    LET key == generatePathKey(obj) IN
    IF Has(cache, key) THEN CacheResult(cache, keys, TRUE, TRUE, <<>>)
    ELSE IF obj.type \notin {"rectangle", "circle"}
    THEN CacheResult(cache, keys, FALSE, FALSE, <<>>)       \* returns null
    ELSE LET cache1 == Append(cache, key)
             keys1 == Append(keys, key)
         IN IF Len(keys1) > HPRCacheCapacity
            THEN CacheResult(Delete(cache1, Head(keys1)), Tail(keys1), FALSE, TRUE,
                             <<Head(keys1)>>)
            ELSE CacheResult(cache1, keys1, FALSE, TRUE, <<>>)

\* a variant whose overflow deletes the Map entry and leaves the key in the Set
UPRGetCachedPath_KeepsKey(cache, keys, obj) ==
    LET key == generatePathKey(obj) IN
    IF Has(cache, key) THEN CacheResult(cache, keys, TRUE, TRUE, <<>>)
    ELSE LET cache1 == Append(cache, key)
             keys1 == IF Has(keys, key) THEN keys ELSE Append(keys, key)
         IN IF Len(keys1) > MAX_CACHE_SIZE
            THEN CacheResult(Delete(cache1, Head(keys1)), keys1, FALSE, TRUE,
                             <<Head(keys1)>>)
            ELSE CacheResult(cache1, keys1, FALSE, TRUE, <<>>)

\* a variant with least-recently-used order: a hit moves the key to the end
UPRGetCachedPath_LRU(cache, keys, obj) ==
    LET key == generatePathKey(obj) IN
    IF Has(cache, key)
    THEN CacheResult(Append(Delete(cache, key), key), Append(Delete(keys, key), key),
                     TRUE, TRUE, <<>>)
    ELSE LET cache1 == Append(cache, key)
             keys1 == IF Has(keys, key) THEN keys ELSE Append(keys, key)
         IN IF Len(keys1) > MAX_CACHE_SIZE
            THEN CacheResult(Delete(cache1, Head(keys1)), Tail(keys1), FALSE, TRUE,
                             <<Head(keys1)>>)
            ELSE CacheResult(cache1, keys1, FALSE, TRUE, <<>>)

\* UltraPerformanceRenderer.getCachedPath: Map plus key Set
UPRGetCachedPath(cache, keys, obj) ==
    LET key == generatePathKey(obj) IN
    IF Has(cache, key) THEN CacheResult(cache, keys, TRUE, TRUE, <<>>)
    ELSE LET cache1 == Append(cache, key)
             keys1 == IF Has(keys, key) THEN keys ELSE Append(keys, key)
         IN IF Len(keys1) > MAX_CACHE_SIZE
            THEN CacheResult(Delete(cache1, Head(keys1)), Tail(keys1), FALSE, TRUE,
                             <<Head(keys1)>>)
            ELSE CacheResult(cache1, keys1, FALSE, TRUE, <<>>)

\* AdvancedCanvasRenderer.getCachedPath: Map only, evicts the oldest 200 at once
ACRGetCachedPath(cache, keys, obj) ==
    LET key == generatePathKey(obj) IN
    IF Has(cache, key) THEN CacheResult(cache, keys, TRUE, TRUE, <<>>)
    ELSE LET cache1 == Append(cache, key)
         IN IF Len(cache1) > ACRCacheCapacity
            THEN CacheResult(SubSeq(cache1, ACREvictBatch + 1, Len(cache1)), keys,
                             FALSE, TRUE, SubSeq(cache1, 1, ACREvictBatch))
            ELSE CacheResult(cache1, keys, FALSE, TRUE, <<>>)

CacheCapacity(r) ==
    CASE r = "HPR" -> HPRCacheCapacity
      [] r = "UPR" -> MAX_CACHE_SIZE
      [] r = "ACR" -> ACRCacheCapacity

CacheExtraInserts == 3  \* insertions made beyond the capacity

ShapeOfKey(key) == Shape(key[1], key[2], key[3], key[4])

\* the objects a paint pass may ask a path for: a signature never seen, the
\* oldest cached one, a text object and, once the cache is about to overflow,
\* the newest cached one and one just evicted
CacheInputs ==
    {Shape("rectangle", Len(insertedAt) + 1, 10, 0), Shape("text", 0, 0, 0)}
    \cup (IF pathCache = <<>> THEN {} ELSE {ShapeOfKey(pathCache[1])})
    \cup (IF insertCount < CacheCapacity(renderer) THEN {}
          ELSE {ShapeOfKey(pathCache[Len(pathCache)])})
    \cup (IF lastEvicted = <<>> THEN {} ELSE {ShapeOfKey(lastEvicted[Len(lastEvicted)])})

InitCache ==
    /\ renderer \in {"HPR", "UPR", "ACR"}
    /\ viewport = [x |-> 0, y |-> 0, zoom100 |-> 100]
    /\ surface = [width |-> 800, height |-> 600]
    /\ isDragging = FALSE /\ isPanning = FALSE
    /\ now = 0 /\ lastRenderTime = 0
    /\ SelIdle /\ CacheIdle /\ SchedIdle /\ LodIdle /\ PaintIdle
    /\ quadTree = QuadTreeNew(HPRRoot, RendererMaxObjects, RendererMaxLevels)
    /\ objects = <<>>
    /\ qtBuilt = FALSE /\ qtArg = <<>> /\ qtQueried = FALSE
    /\ qtQuery = Rect(0, 0, 0, 0) /\ qtFound = <<>>
    /\ qtHit = NoHit
    /\ ViewIdle

\* one getCachedPath(obj) call of the renderer
GetCachedPath(obj) ==
    LET res == CASE renderer = "HPR" -> HPRGetCachedPath(pathCache, pathCacheKeys, obj)
                 [] renderer = "UPR" -> UPRGetCachedPath(pathCache, pathCacheKeys, obj)
                 [] renderer = "ACR" -> ACRGetCachedPath(pathCache, pathCacheKeys, obj)
        key == generatePathKey(obj)
        inserted == ~res.hit /\ res.path
    IN /\ inserted => insertCount < CacheCapacity(renderer) + CacheExtraInserts
       /\ obj.type = "text" => renderer = "HPR"
       /\ pathCache' = res.pathCache
       /\ pathCacheKeys' = res.pathCacheKeys
       /\ lastEvicted' = res.evicted
       /\ lastHitKey' = IF res.hit THEN key ELSE lastHitKey
       /\ insertCount' = IF inserted THEN insertCount + 1 ELSE insertCount
       /\ insertedAt' = IF ~inserted THEN insertedAt
                        ELSE IF key[2] > Len(insertedAt)
                             THEN Append(insertedAt, insertCount + 1)
                             ELSE [insertedAt EXCEPT ![key[2]] = insertCount + 1]
       /\ UNCHANGED <<qtVars, envVars, selVars, schedVars, lodVars, paintVars, viewVars>>

NextCache == \E obj \in CacheInputs : GetCachedPath(obj)

SpecCache == InitCache /\ [][NextCache]_vars

\* C3: once a getCachedPath call has returned, the path cache holds no more
\* entries than the renderer's capacity (500 in HighPerformanceRenderer, 1000
\* in UltraPerformanceRenderer and AdvancedCanvasRenderer).
C3_CacheSizeBounded ==
    Len(pathCache) <= CacheCapacity(renderer)

\* the cache is full and the latest call has evicted
C3_Witness ==
    /\ lastEvicted # <<>>
    /\ Len(pathCache) = CacheCapacity(renderer)

\* the order the renderer evicts in
EvictionOrder == IF renderer = "ACR" THEN pathCache ELSE pathCacheKeys
StampOf(key) == insertedAt[key[2]]

C30_TrackedKeysAreMapKeys ==
    renderer \in {"HPR", "UPR"} =>
        /\ pathCacheKeys = pathCache
        /\ \A i \in 1..(Len(pathCacheKeys) - 1) :
              StampOf(pathCacheKeys[i]) < StampOf(pathCacheKeys[i + 1])

\* a full cache after an eviction, a hit and the re-insertion of an evicted
\* signature
C30_Witness ==
    /\ renderer \in {"HPR", "UPR"}
    /\ Len(pathCacheKeys) = CacheCapacity(renderer)
    /\ lastEvicted # <<>>
    /\ lastHitKey # <<>>
    /\ \E i \in 1..Len(pathCacheKeys) :
          pathCacheKeys[i][2] < pathCacheKeys[1][2]

-----------------------------------------------------------------------------
(* Frame scheduling: render(), the two effects and their cleanups, for      *)
(* HighPerformanceRenderer (HPR), AdvancedCanvasRenderer (ACR),             *)
(* MemoryOptimizedRenderer (MOR), UltraPerformanceRenderer (UPR),           *)
(* CanvasRenderer (CR), OptimizedCanvas (OC) and the plain CanvasRenderer  *)
(* of components/Canvas/CanvasRenderer.tsx (SCR), which has no frame limit  *)
(* and whose animationRef is held in renderRequestId.  Handles of callbacks *)
(* are unique among the live ones; a handle nothing refers to may be        *)
(* reused.                                                                  *)

Min(a, b) == IF a < b THEN a ELSE b

SchedMaxDeferred == 2   \* the history counter deferred saturates here
SchedHorizon == 20      \* the clock runs this far past the mount

FreshId(used) == CHOOSE i \in 1..(Cardinality(used) + 1) : i \notin used

\* the refs and history that render() and the effects read and write
SchedState ==
    [lastRenderTime |-> lastRenderTime, renderRequestId |-> renderRequestId,
     rafPending |-> rafPending, timerPending |-> timerPending,
     effectTimeoutId |-> effectTimeoutId, deferred |-> deferred,
     lastPaintBy |-> lastPaintBy, lastPaintServed |-> lastPaintServed,
     paintedEarly |-> paintedEarly, paintedAfterTeardown |-> paintedAfterTeardown,
     newestPaintedAge |-> newestPaintedAge, paintedOlder |-> paintedOlder]

\* cancelAnimationFrame(id)
cancelAnimationFrame(pending, id) == {c \in pending : c.id # id}

\* a variant of render() whose throttle branch does not cancel the pending callback
render_NoCancel(s, r, c, objs, t, m, by) ==
    LET target == TargetFrameTime(r, c.dragging, c.panning, objs)
        elapsed == t - s.lastRenderTime
        throttled == IF r = "CR" THEN ~c.dragging /\ elapsed < target
                     ELSE r # "SCR" /\ elapsed < target
        hasCanvas == m = "mounted"
        newId == FreshId({s.renderRequestId} \cup {p.id : p \in s.rafPending})
    IN IF r \in {"HPR", "MOR", "CR", "SCR"} /\ ~hasCanvas THEN s
       ELSE IF throttled
       THEN IF r = "OC"
            THEN [s EXCEPT !.deferred = Min(@ + 1, SchedMaxDeferred)]
            ELSE [s EXCEPT
                    !.rafPending = @ \cup
                        {[id |-> newId, dragging |-> c.dragging, panning |-> c.panning,
                          age |-> c.age]},
                    !.renderRequestId = newId,
                    !.deferred = Min(@ + 1, SchedMaxDeferred)]
       ELSE IF ~hasCanvas
       THEN IF r = "OC" THEN s ELSE [s EXCEPT !.lastRenderTime = t]
       ELSE [s EXCEPT !.lastRenderTime = IF r = "SCR" THEN @ ELSE t,
                      !.deferred = 0,
                      !.lastPaintBy = by,
                      !.lastPaintServed = s.deferred,
                      !.paintedEarly = @ \/ elapsed < target,
                      !.paintedAfterTeardown = @ \/ m = "unmounted",
                      !.newestPaintedAge = IF @ = -1 THEN c.age ELSE Min(@, c.age),
                      !.paintedOlder = @ \/ (s.newestPaintedAge # -1
                                               /\ c.age > s.newestPaintedAge)]

\* render() of renderer r, created with interaction state c, called at time t
\* by a direct call, an animation-frame callback or a timer
render(s, r, c, objs, t, m, by) ==
    LET target == TargetFrameTime(r, c.dragging, c.panning, objs)
        elapsed == t - s.lastRenderTime
        throttled == IF r = "CR" THEN ~c.dragging /\ elapsed < target
                     ELSE r # "SCR" /\ elapsed < target
        hasCanvas == m = "mounted"
        newId == FreshId({s.renderRequestId} \cup {p.id : p \in s.rafPending})
    IN IF r \in {"HPR", "MOR", "CR", "SCR"} /\ ~hasCanvas THEN s    \* if (!canvas) return
       ELSE IF throttled
       THEN IF r = "OC"
            THEN [s EXCEPT !.deferred = Min(@ + 1, SchedMaxDeferred)]     \* return
            ELSE [s EXCEPT
                    !.rafPending = cancelAnimationFrame(@, s.renderRequestId) \cup
                        {[id |-> newId, dragging |-> c.dragging, panning |-> c.panning,
                          age |-> c.age]},
                    !.renderRequestId = newId,
                    !.deferred = Min(@ + 1, SchedMaxDeferred)]
       ELSE IF ~hasCanvas
       THEN \* the layer functions return; ACR and UPR still set lastRenderTime
            IF r = "OC" THEN s ELSE [s EXCEPT !.lastRenderTime = t]
       ELSE [s EXCEPT !.lastRenderTime = IF r = "SCR" THEN @ ELSE t,
                      !.deferred = 0,
                      !.lastPaintBy = by,
                      !.lastPaintServed = s.deferred,
                      !.paintedEarly = @ \/ elapsed < target,
                      !.paintedAfterTeardown = @ \/ m = "unmounted",
                      !.newestPaintedAge = IF @ = -1 THEN c.age ELSE Min(@, c.age),
                      !.paintedOlder = @ \/ (s.newestPaintedAge # -1
                                               /\ c.age > s.newestPaintedAge)]

\* the canvas-setup effect: resize, then render()
effect1(s, r, c, objs, t, m) == render(s, r, c, objs, t, m, "direct")

\* the render-trigger effect
effect2(s, r, c, objs, t, m) ==
    LET immediate == CASE r \in {"ACR", "MOR"} -> c.dragging \/ c.panning
                       [] r = "CR" -> c.dragging
                       [] OTHER -> TRUE
        delay == IF r = "ACR" THEN 4 ELSE 0
        timeoutId == FreshId({s.effectTimeoutId} \cup {p.id : p \in s.timerPending})
        animationId == FreshId({s.renderRequestId} \cup {p.id : p \in s.rafPending})
    IN IF r = "SCR"
       THEN \* cancelAnimationFrame(animationRef.current), then requestAnimationFrame(render)
            [s EXCEPT !.rafPending = cancelAnimationFrame(@, s.renderRequestId) \cup
                          {[id |-> animationId, dragging |-> c.dragging,
                            panning |-> c.panning, age |-> c.age]},
                      !.renderRequestId = animationId]
       ELSE IF immediate
       THEN [render(s, r, c, objs, t, m, "direct") EXCEPT !.effectTimeoutId = 0]
       ELSE [s EXCEPT !.timerPending = @ \cup
                        {[id |-> timeoutId, due |-> t + delay,
                          dragging |-> c.dragging, panning |-> c.panning,
                          age |-> c.age]},
                      !.effectTimeoutId = timeoutId]

\* a variant of the first effect's cleanup that leaves the callback pending
cleanup1_NoCancel(s, r) == s

\* the cleanup of the canvas-setup effect
cleanup1(s, r) ==
    IF r \in {"OC", "SCR"} \/ s.renderRequestId = 0 THEN s
    ELSE [s EXCEPT !.rafPending = cancelAnimationFrame(@, s.renderRequestId)]

\* a variant of the second effect's cleanup that leaves the timer pending
cleanup2_NoClear(s, r) == [s EXCEPT !.effectTimeoutId = 0]

\* the cleanup of the render-trigger effect, when it returned one
cleanup2(s, r) ==
    IF r = "SCR"
    THEN (IF s.renderRequestId = 0 THEN s
          ELSE [s EXCEPT !.rafPending = cancelAnimationFrame(@, s.renderRequestId)])
    ELSE IF s.effectTimeoutId = 0 THEN s
    ELSE [s EXCEPT !.timerPending = {p \in @ : p.id # s.effectTimeoutId},
                   !.effectTimeoutId = 0]

SetSched(s) ==
    /\ lastRenderTime' = s.lastRenderTime
    /\ renderRequestId' = s.renderRequestId
    /\ rafPending' = s.rafPending
    /\ timerPending' = s.timerPending
    /\ effectTimeoutId' = s.effectTimeoutId
    /\ deferred' = s.deferred
    /\ lastPaintBy' = s.lastPaintBy
    /\ lastPaintServed' = s.lastPaintServed
    /\ paintedEarly' = s.paintedEarly
    /\ paintedAfterTeardown' = s.paintedAfterTeardown
    /\ newestPaintedAge' = s.newestPaintedAge
    /\ paintedOlder' = s.paintedOlder

\* the props a render closure is created with: the interaction state and the
\* age of the snapshot, 0 for the current one
Interaction == [dragging |-> isDragging, panning |-> isPanning, age |-> 0]
Interactions ==
    { [dragging |-> FALSE, panning |-> FALSE, age |-> 0],
      [dragging |-> TRUE, panning |-> FALSE, age |-> 0],
      [dragging |-> FALSE, panning |-> TRUE, age |-> 0] }

SchedMaxAge == 2        \* the ages of snapshots saturate here

Older(a) == Min(a + 1, SchedMaxAge)

\* a new props snapshot arrives: the closures and paints there are grow older
NewSnapshot(s) ==
    [s EXCEPT !.rafPending = {[p EXCEPT !.age = Older(@)] : p \in @},
              !.timerPending = {[p EXCEPT !.age = Older(@)] : p \in @},
              !.newestPaintedAge = IF @ = -1 THEN -1 ELSE Older(@)]

InitSched ==
    /\ renderer \in {"HPR", "ACR", "MOR", "UPR", "CR", "OC", "SCR"}
    /\ viewport = [x |-> 0, y |-> 0, zoom100 |-> 100]
    /\ surface = [width |-> 800, height |-> 600]
    /\ \E c \in Interactions : isDragging = c.dragging /\ isPanning = c.panning
    /\ now = 100
    /\ lastRenderTime = 0
    /\ SelIdle /\ CacheIdle /\ SchedIdle /\ LodIdle /\ PaintIdle
    /\ quadTree = QuadTreeNew(HPRRoot, RendererMaxObjects, RendererMaxLevels)
    /\ objects = <<>>
    /\ qtBuilt = FALSE /\ qtArg = <<>> /\ qtQueried = FALSE
    /\ qtQuery = Rect(0, 0, 0, 0) /\ qtFound = <<>>
    /\ qtHit = NoHit
    /\ ViewIdle

SchedFrame == <<qtVars, selVars, cacheVars, lodVars, paintVars, viewVars, renderer, viewport, surface>>

\* the component mounts: both effects run
Mount ==
    /\ mounted = "new"
    /\ mounted' = "mounted"
    /\ SetSched(effect2(effect1(SchedState, renderer, Interaction, objects, now, "mounted"),
                        renderer, Interaction, objects, now, "mounted"))
    /\ UNCHANGED <<SchedFrame, isDragging, isPanning, now, cancelledAtTeardown,
                   supersededCallback>>

\* new props give a new render: the cleanups run, then both effects
PropsChange(c) ==
    /\ mounted = "mounted"
    /\ isDragging' = c.dragging
    /\ isPanning' = c.panning
    /\ SetSched(effect2(effect1(cleanup2(cleanup1(NewSnapshot(SchedState), renderer),
                                         renderer),
                                renderer, c, objects, now, mounted),
                        renderer, c, objects, now, mounted))
    /\ supersededCallback' = (supersededCallback \/ rafPending # {} \/ timerPending # {})
    /\ UNCHANGED <<SchedFrame, now, mounted, cancelledAtTeardown>>

\* the window's resize listener: resize, then render()
Resize ==
    /\ mounted = "mounted"
    /\ SetSched(render(SchedState, renderer, Interaction, objects, now, mounted, "direct"))
    /\ UNCHANGED <<SchedFrame, isDragging, isPanning, now, mounted, cancelledAtTeardown,
                   supersededCallback>>

\* the browser runs an animation-frame callback
FireRAF(p) ==
    /\ p \in rafPending
    /\ SetSched(render([SchedState EXCEPT !.rafPending = @ \ {p}], renderer,
                       [dragging |-> p.dragging, panning |-> p.panning, age |-> p.age],
                       objects, now, mounted, "raf"))
    /\ UNCHANGED <<SchedFrame, isDragging, isPanning, now, mounted, cancelledAtTeardown,
                   supersededCallback>>

\* the browser runs a timer callback that is due
FireTimer(p) ==
    /\ p \in timerPending
    /\ now >= p.due
    /\ SetSched(render([SchedState EXCEPT !.timerPending = @ \ {p}], renderer,
                       [dragging |-> p.dragging, panning |-> p.panning, age |-> p.age],
                       objects, now, mounted, "timer"))
    /\ UNCHANGED <<SchedFrame, isDragging, isPanning, now, mounted, cancelledAtTeardown,
                   supersededCallback>>

\* the component unmounts: both cleanups run, the refs become null
Unmount ==
    /\ mounted = "mounted"
    /\ mounted' = "unmounted"
    /\ cancelledAtTeardown' = (rafPending # {} \/ timerPending # {})
    /\ SetSched(cleanup2(cleanup1(SchedState, renderer), renderer))
    /\ UNCHANGED <<SchedFrame, isDragging, isPanning, now, supersededCallback>>

\* time passes
SchedTick ==
    /\ now + 2 <= 100 + SchedHorizon
    /\ now' = now + 2
    /\ UNCHANGED <<SchedFrame, schedVars, isDragging, isPanning, lastRenderTime>>

NextSched ==
    \/ Mount
    \/ \E c \in Interactions : PropsChange(c)
    \/ Resize
    \/ \E p \in rafPending : FireRAF(p)
    \/ \E p \in timerPending : FireTimer(p)
    \/ Unmount
    \/ SchedTick

SpecSched == InitSched /\ [][NextSched]_vars

C6_ThrottledRequestStaysPending ==
    (mounted = "mounted" /\ deferred >= 1) => (rafPending # {} \/ timerPending # {})

\* C7: at most one paint callback, animation frame or timer, is pending.
C7_AtMostOnePending ==
    Cardinality(rafPending) + Cardinality(timerPending) <= 1

\* C8: after the unmount no callback is pending and no paint pass has drawn.
C8_TeardownCancels ==
    mounted = "unmounted" =>
        /\ rafPending = {}
        /\ timerPending = {}
        /\ ~paintedAfterTeardown

\* the unmount found a callback pending and cancelled it
C8_Witness ==
    /\ mounted = "unmounted"
    /\ cancelledAtTeardown
    /\ rafPending = {} /\ timerPending = {}

\* C24: no paint pass runs sooner after the previous one than the target frame
\* interval of the render() call that makes it, in every renderer and every
\* interaction state.
C24_PaintsSeparatedByTarget == ~paintedEarly

\* C24 for the renderers other than CanvasRenderer
C24_SeparatedButCanvasRenderer == renderer # "CR" => ~paintedEarly

-----------------------------------------------------------------------------
(* Level of detail: renderObject of HighPerformanceRenderer (HPR),          *)
(* UltraPerformanceRenderer (UPR), AdvancedCanvasRenderer (ACR) and the     *)
(* per-object drawing of CanvasRenderer (CR).  A call yields the tier it    *)
(* took (1 Micro, 2 Simplified, 3 Full) and the drawing calls it made.      *)

Max(a, b) == IF a > b THEN a ELSE b

\* the fields of a CanvasObject that renderObject reads
Drawable(type, w, h, fill, stroke, strokeWidth, text, npoints) ==
    [type |-> type, bounds |-> Rect(0, 0, w, h),
     style |-> [fill |-> fill, stroke |-> stroke, strokeWidth |-> strokeWidth,
                cornerRadius |-> 0],
     text |-> text, npoints |-> npoints]

\* Math.max(bounds.width * zoom, bounds.height * zoom), in hundredths of a pixel
screenSize100(obj, zoom100) ==
    Max(obj.bounds.width * zoom100, obj.bounds.height * zoom100)

Drawn(level, ops, cached) == [level |-> level, ops |-> ops, cached |-> cached]

\* fill then stroke of a shape, as the style asks
FillAndStroke(obj) ==
    (IF obj.style.fill # "transparent" THEN <<"fill">> ELSE <<>>)
    \o (IF obj.style.strokeWidth > 0 /\ obj.style.stroke # "transparent"
        THEN <<"stroke">> ELSE <<>>)

\* a variant with the tests of the two small tiers exchanged
HPRRenderObject_SwappedTiers(obj, zoom100) ==
    LET size100 == screenSize100(obj, zoom100) IN
    IF size100 < 300
    THEN Drawn(2, IF obj.style.fill # "transparent" THEN <<"fillRect">> ELSE <<>>, FALSE)
    ELSE IF size100 < 800
    THEN Drawn(1, <<"fillRect">>, FALSE)
    ELSE Drawn(3, FillAndStroke(obj), obj.type \in {"rectangle", "circle"})

\* HighPerformanceRenderer.renderObject
HPRRenderObject(obj, zoom100) ==
    LET size100 == screenSize100(obj, zoom100) IN
    IF size100 < 300
    THEN Drawn(1, <<"fillRect">>, FALSE)
    ELSE IF size100 < 800
    THEN Drawn(2, IF obj.style.fill = "transparent" THEN <<>>
                  ELSE IF obj.type = "circle" THEN <<"fill">> ELSE <<"fillRect">>,
               FALSE)
    ELSE CASE obj.type \in {"rectangle", "circle"} -> Drawn(3, FillAndStroke(obj), TRUE)
           [] obj.type = "text" ->
                Drawn(3, IF obj.text # "" /\ size100 > 1200 /\ obj.style.fill # "transparent"
                         THEN <<"fillText">> ELSE <<>>, FALSE)
           [] obj.type = "line" ->
                Drawn(3, IF obj.npoints > 1 /\ obj.style.strokeWidth > 0
                         THEN <<"stroke">> ELSE <<>>, FALSE)

\* a variant whose micro tier starts below 3 px
UPRRenderObject_Micro3(obj, zoom100, usePathCache) ==
    LET size100 == screenSize100(obj, zoom100) IN
    IF size100 < 300
    THEN Drawn(1, <<"fillRect">>, FALSE)
    ELSE IF usePathCache /\ obj.type \in {"rectangle", "circle"}
    THEN Drawn(3, FillAndStroke(obj), TRUE)
    ELSE Drawn(3, <<>>, FALSE)

\* UltraPerformanceRenderer.renderObject
UPRRenderObject(obj, zoom100, usePathCache) ==
    LET size100 == screenSize100(obj, zoom100) IN
    IF size100 < 200
    THEN Drawn(1, <<"fillRect">>, FALSE)
    ELSE IF usePathCache /\ obj.type \in {"rectangle", "circle"}
    THEN Drawn(3, FillAndStroke(obj), TRUE)
    ELSE CASE obj.type = "text" ->
                Drawn(3, IF obj.text # "" /\ obj.style.fill # "transparent"
                         THEN <<"fillText">> ELSE <<>>, FALSE)
           [] obj.type = "line" ->
                Drawn(3, IF obj.npoints > 1 /\ obj.style.strokeWidth > 0
                         THEN <<"stroke">> ELSE <<>>, FALSE)
           [] OTHER -> Drawn(3, <<>>, FALSE)     \* the switch has no other case

\* AdvancedCanvasRenderer.renderObject
ACRRenderObject(obj, zoom100, usePathCache) ==
    LET size100 == screenSize100(obj, zoom100) IN
    IF size100 < 200
    THEN Drawn(1, <<"fillRect">>, FALSE)
    ELSE IF usePathCache /\ obj.type \in {"rectangle", "circle"}
    THEN Drawn(3, FillAndStroke(obj), TRUE)
    ELSE CASE obj.type = "text" ->
                Drawn(3, IF obj.text # "" THEN <<"fillText">> ELSE <<>>, FALSE)
           [] obj.type = "line" ->
                Drawn(3, IF obj.npoints > 1 /\ obj.style.strokeWidth > 0
                         THEN <<"stroke">> ELSE <<>>, FALSE)
           [] OTHER -> Drawn(3, FillAndStroke(obj), FALSE)

\* CanvasRenderer.render, the drawing of one object
CRRenderObject(obj, zoom100, dragging) ==
    LET size100 == screenSize100(obj, zoom100)
        isVerySmall == ~dragging /\ size100 < 300
    IN IF isVerySmall
       THEN Drawn(1, <<"fillRect">>, FALSE)
       ELSE CASE obj.type \in {"rectangle", "circle"} -> Drawn(3, FillAndStroke(obj), FALSE)
              [] obj.type = "text" ->
                    Drawn(3, IF obj.text = "" THEN <<>>
                             ELSE (IF obj.style.fill # "transparent"
                                   THEN <<"fillText">> ELSE <<>>)
                                  \o (IF obj.style.strokeWidth > 0
                                         /\ obj.style.stroke # "transparent"
                                      THEN <<"strokeText">> ELSE <<>>), FALSE)
              [] obj.type = "line" ->
                    Drawn(3, IF obj.npoints > 1 /\ obj.style.strokeWidth > 0
                             THEN <<"stroke">> ELSE <<>>, FALSE)

LodObjects ==
    { Drawable("rectangle", 100, 100, "red", "blue", 2, "", 0),
      Drawable("circle", 50, 100, "transparent", "blue", 1, "", 0),
      Drawable("text", 100, 20, "black", "transparent", 0, "hi", 0),
      Drawable("line", 100, 60, "transparent", "blue", 2, "", 2) }

LodZooms == {1, 2, 3, 5, 8, 100}

InitLOD ==
    /\ renderer \in {"HPR", "UPR", "ACR", "CR"}
    /\ viewport \in {[x |-> 0, y |-> 0, zoom100 |-> z] : z \in LodZooms}
    /\ surface = [width |-> 800, height |-> 600]
    /\ isDragging \in BOOLEAN
    /\ isPanning = FALSE
    /\ now = 0 /\ lastRenderTime = 0
    /\ SelIdle /\ CacheIdle /\ SchedIdle /\ PaintIdle
    /\ quadTree = QuadTreeNew(HPRRoot, RendererMaxObjects, RendererMaxLevels)
    /\ objects = <<>>
    /\ qtBuilt = FALSE /\ qtArg = <<>> /\ qtQueried = FALSE
    /\ qtQuery = Rect(0, 0, 0, 0) /\ qtFound = <<>>
    /\ qtHit = NoHit
    /\ ViewIdle
    /\ lodObject \in LodObjects
    /\ lodRendered = FALSE
    /\ lodLast = [zoom100 |-> 100, dragging |-> FALSE, level |-> 0, ops |-> <<>>]
    /\ lodPrevious = [zoom100 |-> 100, dragging |-> FALSE, level |-> 0]

LodFrame == <<qtVars, selVars, schedVars, paintVars, viewVars, renderer, surface, isPanning, now, lastRenderTime,
              insertedAt, insertCount, lastHitKey, lastEvicted>>

\* the viewport prop changes its zoom
SetZoom(z) ==
    /\ z # viewport.zoom100
    /\ viewport' = [viewport EXCEPT !.zoom100 = z]
    /\ UNCHANGED <<LodFrame, lodVars, isDragging, pathCache, pathCacheKeys>>

\* a drag starts or ends
SetDragging ==
    /\ isDragging' = ~isDragging
    /\ UNCHANGED <<LodFrame, lodVars, viewport, pathCache, pathCacheKeys>>

\* renderObject(ctx, lodObject, usePathCache), with the getCachedPath call it makes
RenderObject(usePathCache) ==
    LET res == CASE renderer = "HPR" -> HPRRenderObject(lodObject, viewport.zoom100)
                 [] renderer = "UPR" ->
                        UPRRenderObject(lodObject, viewport.zoom100, usePathCache)
                 [] renderer = "ACR" ->
                        ACRRenderObject(lodObject, viewport.zoom100, usePathCache)
                 [] renderer = "CR" ->
                        CRRenderObject(lodObject, viewport.zoom100, isDragging)
        cache == CASE ~res.cached -> [pathCache |-> pathCache, pathCacheKeys |-> pathCacheKeys]
                   [] renderer = "HPR" -> HPRGetCachedPath(pathCache, pathCacheKeys, lodObject)
                   [] renderer = "UPR" -> UPRGetCachedPath(pathCache, pathCacheKeys, lodObject)
                   [] renderer = "ACR" -> ACRGetCachedPath(pathCache, pathCacheKeys, lodObject)
    IN /\ usePathCache \/ renderer \in {"UPR", "ACR"}
       /\ lodRendered' = TRUE
       /\ lodLast' = [zoom100 |-> viewport.zoom100, dragging |-> isDragging,
                      level |-> res.level, ops |-> res.ops]
       /\ lodPrevious' = [zoom100 |-> lodLast.zoom100, dragging |-> lodLast.dragging,
                          level |-> lodLast.level]
       /\ pathCache' = cache.pathCache
       /\ pathCacheKeys' = cache.pathCacheKeys
       /\ UNCHANGED <<LodFrame, lodObject, viewport, isDragging>>

NextLOD ==
    \/ \E z \in LodZooms : SetZoom(z)
    \/ SetDragging
    \/ \E usePathCache \in BOOLEAN : RenderObject(usePathCache)

SpecLOD == InitLOD /\ [][NextLOD]_vars

\* C9: for one object and one interaction state, of two renderObject calls the
\* one at the smaller zoom never takes the higher detail tier.
C9_LevelMonotoneInZoom ==
    (lodRendered /\ lodPrevious.level # 0 /\ lodPrevious.dragging = lodLast.dragging) =>
        /\ lodPrevious.zoom100 <= lodLast.zoom100 => lodPrevious.level <= lodLast.level
        /\ lodLast.zoom100 <= lodPrevious.zoom100 => lodLast.level <= lodPrevious.level

\* two calls in one interaction state, the second at a larger zoom and a higher tier
C9_Witness ==
    /\ lodRendered
    /\ lodPrevious.level # 0
    /\ lodPrevious.dragging = lodLast.dragging
    /\ lodPrevious.zoom100 < lodLast.zoom100
    /\ lodPrevious.level < lodLast.level

LastSize100 == screenSize100(lodObject, lodLast.zoom100)
LastOps == Range(lodLast.ops)

TextOps == {"fillText", "strokeText"}

\* C27: a text fill or text stroke call is issued only for a text object at
\* Full detail whose on-screen size exceeds 12 px (HighPerformanceRenderer,
\* AdvancedCanvasRenderer and UltraPerformanceRenderer).
C27_TextOnlyAboveMinimum ==
    (lodRendered /\ renderer \in {"HPR", "ACR", "UPR"} /\ LastOps \cap TextOps # {}) =>
        /\ lodObject.type = "text"
        /\ lodLast.level = 3
        /\ LastSize100 > 1200

\* C27 for HighPerformanceRenderer alone
C27_HPRTextAboveMinimum ==
    renderer = "HPR" => C27_TextOnlyAboveMinimum


-----------------------------------------------------------------------------
(* The paint pass: what each renderer's render() leaves on its surfaces.   *)
(* A surface is the sequence of the draw calls made since its last         *)
(* clearRect, each with the context state it was made under.  Opacity is   *)
(* in hundredths.  An optional argument is <<>> when it is undefined and   *)
(* <<v>> when it has the value v.                                          *)

\* a CanvasObject with the fields the paint pass reads
PObj(id, type, x, y, w, h, tx, vis, layer, fill, stroke, strokeWidth, opacity100) ==
    [id |-> id, type |-> type, bounds |-> Rect(x, y, w, h),
     transform |-> [x |-> tx, y |-> 0], visible |-> vis, layer |-> layer,
     style |-> [fill |-> fill, stroke |-> stroke, strokeWidth |-> strokeWidth,
                opacity |-> opacity100, cornerRadius |-> 0],
     text |-> IF type = "text" THEN "abc" ELSE "",
     npoints |-> IF type = "line" THEN 2 ELSE 0]

StyleFields == {"fillStyle", "strokeStyle", "lineWidth", "globalAlpha", "font"}

\* the state of a 2d context that nothing has been assigned to: what
\* ctx.restore() brings back at the end of renderObject and of a layer
CanvasDefaults ==
    [fillStyle |-> "#000000", strokeStyle |-> "#000000", lineWidth |-> 1,
     globalAlpha |-> 100, font |-> "10px sans-serif"]

\* ctx.fillStyle = ..., ctx.strokeStyle = ..., ...: the fields given are assigned
Assign(fillStyle, strokeStyle, lineWidth, globalAlpha, font) ==
    [kind |-> "assign", fillStyle |-> fillStyle, strokeStyle |-> strokeStyle,
     lineWidth |-> lineWidth, globalAlpha |-> globalAlpha, font |-> font]

\* a call setContextState(ctx, fillStyle, strokeStyle, lineWidth, globalAlpha, font)
SetContextStateCall(fillStyle, strokeStyle, lineWidth, globalAlpha, font) ==
    [kind |-> "setContextState", fillStyle |-> fillStyle, strokeStyle |-> strokeStyle,
     lineWidth |-> lineWidth, globalAlpha |-> globalAlpha, font |-> font]

\* a drawing call for an object: op is the context method, path the signature
\* of the cached Path2D it is given (<<>> when it draws the current path or a
\* rectangle), what tells an object's own paint from a selection outline
DrawCall(op, path, what, obj) ==
    [kind |-> "draw", op |-> op, path |-> path, what |-> what, id |-> obj.id,
     at |-> objBounds(obj)]

\* the state after the assignments of an Assign step
AssignTo(ctx, st) ==
    [f \in StyleFields |-> IF st[f] # <<>> THEN st[f][1] ELSE ctx[f]]

\* AdvancedCanvasRenderer.setContextState: a field is written to the context
\* and to the pool only when its value is given and differs from the pool's
setContextState(ctx, pool, st) ==
    LET given(f) == IF st[f] = <<>> THEN FALSE
                    ELSE IF f \in {"fillStyle", "strokeStyle", "font"}
                         THEN st[f][1] # ""
                         ELSE TRUE
        writes(f) == given(f) /\ st[f][1] # pool[f]
    IN [ctx |-> [f \in StyleFields |-> IF writes(f) THEN st[f][1] ELSE ctx[f]],
        pool |-> [f \in StyleFields |-> IF writes(f) THEN st[f][1] ELSE pool[f]]]

\* what a drawing call puts on the surface under the context state ctx
Painted(st, ctx) ==
    LET strokes == st.op \in {"stroke", "strokeRect"} IN
    [id |-> st.id, what |-> st.what, op |-> st.op, path |-> st.path, at |-> st.at,
     paint |-> IF strokes THEN ctx.strokeStyle ELSE ctx.fillStyle,
     lineWidth |-> IF strokes THEN ctx.lineWidth ELSE 0,
     globalAlpha |-> ctx.globalAlpha]

Save == [kind |-> "save"]
Restore == [kind |-> "restore"]

RECURSIVE runSteps(_, _, _, _, _)
\* the steps of a piece of drawing code, run in order on a context with its
\* stack of saved states; the result is the pool and the surface afterwards
runSteps(steps, ctx, stack, pool, out) ==
    IF steps = <<>> THEN [pool |-> pool, out |-> out]
    ELSE LET st == Head(steps) IN
         CASE st.kind = "save" ->
                  runSteps(Tail(steps), ctx, <<ctx>> \o stack, pool, out)
           [] st.kind = "restore" ->
                  runSteps(Tail(steps), Head(stack), Tail(stack), pool, out)
           [] st.kind = "assign" ->
                  runSteps(Tail(steps), AssignTo(ctx, st), stack, pool, out)
           [] st.kind = "setContextState" ->
                  LET r == setContextState(ctx, pool, st)
                  IN runSteps(Tail(steps), r.ctx, stack, r.pool, out)
           [] st.kind = "draw" ->
                  runSteps(Tail(steps), ctx, stack, pool, Append(out, Painted(st, ctx)))

\* fill then stroke with direct assignments, as the style asks
fillThenStroke(obj, path) ==
    (IF obj.style.fill # "transparent"
     THEN << Assign(<<obj.style.fill>>, <<>>, <<>>, <<>>, <<>>),
             DrawCall("fill", path, "object", obj) >>
     ELSE <<>>)
    \o (IF obj.style.strokeWidth > 0 /\ obj.style.stroke # "transparent"
        THEN << Assign(<<>>, <<obj.style.stroke>>, <<obj.style.strokeWidth>>, <<>>, <<>>),
                DrawCall("stroke", path, "object", obj) >>
        ELSE <<>>)

\* the same through setContextState
pooledFillThenStroke(obj, path) ==
    (IF obj.style.fill # "transparent"
     THEN << SetContextStateCall(<<obj.style.fill>>, <<>>, <<>>, <<>>, <<>>),
             DrawCall("fill", path, "object", obj) >>
     ELSE <<>>)
    \o (IF obj.style.strokeWidth > 0 /\ obj.style.stroke # "transparent"
        THEN << SetContextStateCall(<<>>, <<obj.style.stroke>>, <<obj.style.strokeWidth>>,
                                    <<>>, <<>>),
                DrawCall("stroke", path, "object", obj) >>
        ELSE <<>>)

microFill(obj) ==
    IF obj.style.fill # "transparent" THEN obj.style.fill ELSE obj.style.stroke

\* `${fontSize || 16}px ${fontFamily || 'Arial'}`: the objects set neither
ObjectFont == "16px Arial"

\* AdvancedCanvasRenderer.renderObject between its save() and restore()
ACRRenderObjectSteps(obj, zoom100, usePathCache) ==
    << SetContextStateCall(<<>>, <<>>, <<>>, <<obj.style.opacity>>, <<>>) >>
    \o (IF screenSize100(obj, zoom100) < 200
        THEN << SetContextStateCall(<<microFill(obj)>>, <<>>, <<>>, <<>>, <<>>),
                DrawCall("fillRect", <<>>, "object", obj) >>
        ELSE IF usePathCache /\ obj.type \in {"rectangle", "circle"}
        THEN pooledFillThenStroke(obj, generatePathKey(obj))
        ELSE CASE obj.type = "text" ->
                    (IF obj.text # ""
                     THEN << SetContextStateCall(<<obj.style.fill>>, <<>>, <<>>, <<>>,
                                                 <<ObjectFont>>),
                             DrawCall("fillText", <<>>, "object", obj) >>
                     ELSE <<>>)
               [] obj.type = "line" ->
                    (IF obj.npoints > 1 /\ obj.style.strokeWidth > 0
                     THEN << SetContextStateCall(<<>>, <<obj.style.stroke>>,
                                                 <<obj.style.strokeWidth>>, <<>>, <<>>),
                             DrawCall("stroke", <<>>, "object", obj) >>
                     ELSE <<>>)
               [] OTHER -> pooledFillThenStroke(obj, <<>>))

\* HighPerformanceRenderer.renderObject between its save() and restore()
HPRRenderObjectSteps(obj, zoom100) ==
    LET size100 == screenSize100(obj, zoom100) IN
    << Assign(<<>>, <<>>, <<>>, <<obj.style.opacity>>, <<>>) >>
    \o (IF size100 < 300
        THEN << Assign(<<microFill(obj)>>, <<>>, <<>>, <<>>, <<>>),
                DrawCall("fillRect", <<>>, "object", obj) >>
        ELSE IF size100 < 800
        THEN (IF obj.style.fill # "transparent"
              THEN << Assign(<<obj.style.fill>>, <<>>, <<>>, <<>>, <<>>),
                      DrawCall(IF obj.type = "circle" THEN "fill" ELSE "fillRect",
                               <<>>, "object", obj) >>
              ELSE <<>>)
        ELSE CASE obj.type \in {"rectangle", "circle"} ->
                    fillThenStroke(obj, generatePathKey(obj))
               [] obj.type = "text" ->
                    (IF obj.text # "" /\ size100 > 1200
                     THEN << Assign(<<>>, <<>>, <<>>, <<>>, <<ObjectFont>>) >>
                          \o (IF obj.style.fill # "transparent"
                              THEN << Assign(<<obj.style.fill>>, <<>>, <<>>, <<>>, <<>>),
                                      DrawCall("fillText", <<>>, "object", obj) >>
                              ELSE <<>>)
                     ELSE <<>>)
               [] obj.type = "line" ->
                    (IF obj.npoints > 1 /\ obj.style.strokeWidth > 0
                     THEN << Assign(<<>>, <<obj.style.stroke>>, <<obj.style.strokeWidth>>,
                                    <<>>, <<>>),
                             DrawCall("stroke", <<>>, "object", obj) >>
                     ELSE <<>>)
               [] OTHER -> <<>>)

\* the switch MemoryOptimizedRenderer and OptimizedCanvas share: no detail
\* tiers; only the first tests the stroke colour of a line
plainSteps(obj, lineTestsStroke) ==
    << Assign(<<>>, <<>>, <<>>, <<obj.style.opacity>>, <<>>) >>
    \o CASE obj.type \in {"rectangle", "circle"} -> fillThenStroke(obj, <<>>)
         [] obj.type = "text" ->
              (IF obj.text # ""
               THEN << Assign(<<>>, <<>>, <<>>, <<>>, <<ObjectFont>>) >>
                    \o (IF obj.style.fill # "transparent"
                        THEN << Assign(<<obj.style.fill>>, <<>>, <<>>, <<>>, <<>>),
                                DrawCall("fillText", <<>>, "object", obj) >>
                        ELSE <<>>)
               ELSE <<>>)
         [] obj.type = "line" ->
              (IF /\ obj.npoints > 1 /\ obj.style.strokeWidth > 0
                  /\ (lineTestsStroke => obj.style.stroke # "transparent")
               THEN << Assign(<<>>, <<obj.style.stroke>>, <<obj.style.strokeWidth>>,
                              <<>>, <<>>),
                       DrawCall("stroke", <<>>, "object", obj) >>
               ELSE <<>>)
         [] OTHER -> <<>>

\* MemoryOptimizedRenderer.renderObject between its save() and restore()
MORRenderObjectSteps(obj) == plainSteps(obj, TRUE)

\* 2 / viewport.zoom
OutlineWidth(zoom100) == 200 \div zoom100

\* OptimizedCanvas.renderObject: the switch, then the selection highlight
OCRenderObjectSteps(obj, selected, zoom100) ==
    plainSteps(obj, FALSE)
    \o (IF obj.id \in Range(selected)
        THEN << Assign(<<>>, <<"#007bff">>, <<OutlineWidth(zoom100)>>, <<>>, <<>>),
                DrawCall("stroke", <<>>, "outline", obj) >>
        ELSE <<>>)

\* UltraPerformanceRenderer.renderObject between its save() and restore()
UPRRenderObjectSteps(obj, zoom100, usePathCache) ==
    << Assign(<<>>, <<>>, <<>>, <<obj.style.opacity>>, <<>>) >>
    \o (IF screenSize100(obj, zoom100) < 200
        THEN << Assign(<<microFill(obj)>>, <<>>, <<>>, <<>>, <<>>),
                DrawCall("fillRect", <<>>, "object", obj) >>
        ELSE IF usePathCache /\ obj.type \in {"rectangle", "circle"}
        THEN fillThenStroke(obj, generatePathKey(obj))
        ELSE CASE obj.type = "text" ->
                    (IF obj.text # ""
                     THEN << Assign(<<>>, <<>>, <<>>, <<>>, <<ObjectFont>>) >>
                          \o (IF obj.style.fill # "transparent"
                              THEN << Assign(<<obj.style.fill>>, <<>>, <<>>, <<>>, <<>>),
                                      DrawCall("fillText", <<>>, "object", obj) >>
                              ELSE <<>>)
                     ELSE <<>>)
               [] obj.type = "line" ->
                    (IF obj.npoints > 1 /\ obj.style.strokeWidth > 0
                     THEN << Assign(<<>>, <<obj.style.stroke>>, <<obj.style.strokeWidth>>,
                                    <<>>, <<>>),
                             DrawCall("stroke", <<>>, "object", obj) >>
                     ELSE <<>>)
               [] OTHER -> <<>>)


RECURSIVE Flatten(_)
Flatten(seqs) == IF seqs = <<>> THEN <<>> ELSE Head(seqs) \o Flatten(Tail(seqs))

\* list.forEach(obj => renderObject(ctx, obj, ...)): each object between its
\* own save() and restore(); stepsOf[i] is the body of renderObject for list[i]
forEachRenderObject(list, stepsOf) ==
    Flatten([i \in 1..Len(list) |-> <<Save>> \o stepsOf[i] \o <<Restore>>])

\* one layer function from its ctx.save() to its ctx.restore()
layer(steps, pool) ==
    runSteps(<<Save>> \o steps \o <<Restore>>, CanvasDefaults, <<>>, pool, <<>>)

\* the outlines HighPerformanceRenderer and MemoryOptimizedRenderer stroke
\* after the objects: the selected ones among the objects just drawn
outlinesOfDrawn(visibleObjects, selected, zoom100) ==
    IF selected = <<>> THEN <<>>
    ELSE << Assign(<<>>, <<"#007bff">>, <<OutlineWidth(zoom100)>>, <<>>, <<>>) >>
         \o Flatten([i \in 1..Len(visibleObjects) |->
                        IF visibleObjects[i].id \in Range(selected)
                        THEN << DrawCall("strokeRect", <<>>, "outline", visibleObjects[i]) >>
                        ELSE <<>>])

\* objects.find(o => o.id === id)
find(objs, id) == SelectSeq(objs, LAMBDA o : o.id = id)

\* the overlay of AdvancedCanvasRenderer: one setContextState, then a
\* strokeRect for every selected id whose object exists and is visible
ACROverlaySteps(objs, selected, zoom100) ==
    IF selected = <<>> THEN <<>>
    ELSE << SetContextStateCall(<<>>, <<"#007bff">>, <<OutlineWidth(zoom100)>>,
                                <<100>>, <<>>) >>
         \o Flatten([i \in 1..Len(selected) |->
                        LET found == find(objs, selected[i]) IN
                        IF found = <<>> \/ ~found[1].visible THEN <<>>
                        ELSE << DrawCall("strokeRect", <<>>, "outline", found[1]) >>])

\* the overlay of UltraPerformanceRenderer: the style is assigned per outline
UPROverlaySteps(objs, selected, zoom100) ==
    Flatten([i \in 1..Len(selected) |->
                LET found == find(objs, selected[i]) IN
                IF found = <<>> \/ ~found[1].visible THEN <<>>
                ELSE << Assign(<<>>, <<"#007bff">>, <<OutlineWidth(zoom100)>>, <<>>, <<>>),
                        DrawCall("strokeRect", <<>>, "outline", found[1]) >>])

\* MemoryOptimizedRenderer.getVisibleObjects: the linear filter with its margin
MORGetVisibleObjects(objs, vp, rect, dragging, panning) ==
    LET margin == IF dragging THEN 100 ELSE IF panning THEN 50 ELSE 20
        viewBounds == Rect(DivZoom(-vp.x, vp.zoom100) - margin,
                           DivZoom(-vp.y, vp.zoom100) - margin,
                           DivZoom(rect.width, vp.zoom100) + margin * 2,
                           DivZoom(rect.height, vp.zoom100) + margin * 2)
    IN SelectSeq(objs, LAMBDA obj : obj.visible /\ ACRLinearTest(obj, viewBounds))

\* UltraPerformanceRenderer.cullObjects
cullObjects(objectList) == SelectSeq(objectList, LAMBDA obj : obj.visible)

\* utils/performance isObjectInViewport
isObjectInViewport(objectBounds, vp, canvasSize) ==
    LET viewLeft == DivZoom(-vp.x, vp.zoom100)
        viewTop == DivZoom(-vp.y, vp.zoom100)
        viewRight == viewLeft + DivZoom(canvasSize.width, vp.zoom100)
        viewBottom == viewTop + DivZoom(canvasSize.height, vp.zoom100)
    IN ~ ( \/ objectBounds.x + objectBounds.width < viewLeft
           \/ objectBounds.x > viewRight
           \/ objectBounds.y + objectBounds.height < viewTop
           \/ objectBounds.y > viewBottom )

\* OptimizedCanvas: the partition into staticObjects and dynamicObjects
OCPartition(objs, dragging, dragged) ==
    IF ~dragging THEN [staticObjects |-> objs, dynamicObjects |-> <<>>]
    ELSE [staticObjects |-> SelectSeq(objs, LAMBDA o : o.id \notin dragged),
          dynamicObjects |-> SelectSeq(objs, LAMBDA o : o.id \in dragged)]

RECURSIVE cacheAll(_, _, _)
\* HighPerformanceRenderer: the cache after getCachedPath for each object in turn
cacheAll(objs, cache, keys) ==
    IF objs = <<>> THEN [pathCache |-> cache, pathCacheKeys |-> keys]
    ELSE LET r == HPRGetCachedPath(cache, keys, Head(objs))
         IN cacheAll(Tail(objs), r.pathCache, r.pathCacheKeys)


\* SelectionOutlines: one outline div per object whose id is selected
SelectionOutlines(objs, selected) ==
    LET selectedObjects == SelectSeq(objs, LAMBDA obj : obj.id \in Range(selected))
    IN [i \in 1..Len(selectedObjects) |-> selectedObjects[i].id]

\* what a render() call leaves behind; ran tells that it got past its early
\* returns and set lastRenderTime
PaintResult(f, surfaces, pool, cache, keys, ran) ==
    [frame |-> f, repainted |-> surfaces, pool |-> pool, pathCache |-> cache,
     pathCacheKeys |-> keys, ran |-> ran]

Skipped(f) == PaintResult(f, {}, contextStatePool, pathCache, pathCacheKeys, FALSE)

\* HighPerformanceRenderer.render past its throttle; its one canvas is the
\* surface called dynamic
HPRPaint(f) ==
    IF ~canvasReady.dynamic THEN Skipped(f)
    ELSE LET visibleObjects ==
                 sortByLayer(HPRGetVisibleObjects(quadTree, viewport, surface,
                                                  isDragging, isPanning))
             r == layer(forEachRenderObject(visibleObjects,
                            [i \in 1..Len(visibleObjects) |->
                                HPRRenderObjectSteps(visibleObjects[i], viewport.zoom100)])
                        \o outlinesOfDrawn(visibleObjects, selectedIds, viewport.zoom100),
                        contextStatePool)
             c == cacheAll(SelectSeq(visibleObjects,
                               LAMBDA o : /\ screenSize100(o, viewport.zoom100) >= 800
                                          /\ o.type \in {"rectangle", "circle"}),
                           pathCache, pathCacheKeys)
         IN PaintResult([f EXCEPT !.dynamic = r.out], {"dynamic"}, r.pool,
                        c.pathCache, c.pathCacheKeys, TRUE)

\* MemoryOptimizedRenderer.render past its throttle
MORPaint(f) ==
    IF ~canvasReady.dynamic THEN Skipped(f)
    ELSE LET visibleObjects ==
                 sortByLayer(MORGetVisibleObjects(objects, viewport, surface,
                                                  isDragging, isPanning))
             r == layer(forEachRenderObject(visibleObjects,
                            [i \in 1..Len(visibleObjects) |->
                                MORRenderObjectSteps(visibleObjects[i])])
                        \o outlinesOfDrawn(visibleObjects, selectedIds, viewport.zoom100),
                        contextStatePool)
         IN PaintResult([f EXCEPT !.dynamic = r.out], {"dynamic"}, r.pool,
                        pathCache, pathCacheKeys, TRUE)

\* AdvancedCanvasRenderer.render past its throttle: staticObjects is empty, so
\* renderStaticLayer is not called; the other two layers each test their canvas
ACRPaint(f, qt) ==
    LET visibleDynamic ==
            sortByLayer(ACRGetVisibleObjects(qt, objects,
                            ACRQueryBounds(viewport, surface, isDragging, isPanning)))
        d == IF canvasReady.dynamic
             THEN layer(forEachRenderObject(visibleDynamic,
                            [i \in 1..Len(visibleDynamic) |->
                                ACRRenderObjectSteps(visibleDynamic[i],
                                                     viewport.zoom100, FALSE)]),
                        contextStatePool)
             ELSE [pool |-> contextStatePool, out |-> f.dynamic]
        o == IF canvasReady.overlay
             THEN layer(ACROverlaySteps(objects, selectedIds, viewport.zoom100), d.pool)
             ELSE [pool |-> d.pool, out |-> f.overlay]
    IN PaintResult([f EXCEPT !.dynamic = d.out, !.overlay = o.out],
                   {x \in {"dynamic", "overlay"} : canvasReady[x]},
                   o.pool, pathCache, pathCacheKeys, TRUE)

\* UltraPerformanceRenderer.render past its throttle: three layers, each
\* testing its canvas; staticObjects is empty
UPRPaint(f) ==
    LET visibleDynamic == sortByLayer(cullObjects(objects))
        d == layer(forEachRenderObject(visibleDynamic,
                            [i \in 1..Len(visibleDynamic) |->
                                UPRRenderObjectSteps(visibleDynamic[i],
                                                     viewport.zoom100, FALSE)]),
                   contextStatePool)
        o == layer(UPROverlaySteps(objects, selectedIds, viewport.zoom100),
                   contextStatePool)
    IN PaintResult([static |-> IF canvasReady.static THEN <<>> ELSE f.static,
                    dynamic |-> IF canvasReady.dynamic THEN d.out ELSE f.dynamic,
                    overlay |-> IF canvasReady.overlay THEN o.out ELSE f.overlay],
                   {x \in {"static", "dynamic", "overlay"} : canvasReady[x]},
                   contextStatePool, pathCache, pathCacheKeys, TRUE)

\* OptimizedCanvas.render past its throttle: it returns when either canvas is
\* missing; its dragged objects go to canvasRef, the surface called dynamic
OCPaint(f) ==
    IF ~canvasReady.static \/ ~canvasReady.dynamic THEN Skipped(f)
    ELSE LET part == OCPartition(objects, isDragging, draggedObjects)
             visibleObjects ==
                 sortByLayer(SelectSeq(part.staticObjects,
                     LAMBDA obj : /\ obj.visible
                                  /\ isObjectInViewport(objBounds(obj), viewport, surface)))
             st == layer(forEachRenderObject(visibleObjects,
                            [i \in 1..Len(visibleObjects) |->
                                OCRenderObjectSteps(visibleObjects[i], selectedIds,
                                                    viewport.zoom100)]),
                         contextStatePool)
             sortedDynamic == sortByLayer(part.dynamicObjects)
             dy == layer(forEachRenderObject(sortedDynamic,
                            [i \in 1..Len(sortedDynamic) |->
                                OCRenderObjectSteps(sortedDynamic[i], selectedIds,
                                                    viewport.zoom100)]),
                         contextStatePool)
             paintStatic == ~isDragging \/ Len(part.staticObjects) > 0
         IN PaintResult([f EXCEPT !.static = IF paintStatic THEN st.out ELSE @,
                                      !.dynamic = dy.out],
                        IF paintStatic THEN {"static", "dynamic"} ELSE {"dynamic"},
                        contextStatePool, pathCache, pathCacheKeys, TRUE)


-----------------------------------------------------------------------------
(* SpecPaint: one renderer instance, its props changing between passes *)

PaintMaxTicks == 2      \* frame intervals that pass after the first render()

P1 == PObj(1, "rectangle", 0, 0, 100, 100, 0, TRUE, 0, "red", "black", 2, 100)
P1Moved == PObj(1, "rectangle", 0, 0, 100, 100, 50, TRUE, 0, "red", "black", 2, 100)
P2 == PObj(2, "circle", 50, 50, 100, 100, 0, TRUE, 0, "red", "transparent", 0, 50)
P4Hidden == PObj(4, "rectangle", 200, 0, 100, 100, 0, FALSE, 1, "green", "black", 2, 100)

PaintScenes == { <<P1, P2>>, <<P1Moved, P2>>, <<P1, P2, P4Hidden>> }
PaintSelections == { <<>>, <<4, 1>> }
PaintDrags == { [dragging |-> FALSE, ids |-> {}], [dragging |-> TRUE, ids |-> {1, 4}],
                [dragging |-> TRUE, ids |-> {1, 2, 4}] }
PaintViewports == { [x |-> 0, y |-> 0, zoom100 |-> 100], [x |-> 0, y |-> 0, zoom100 |-> 1] }
\* every canvas there, or one of them missing
PaintSurfaces ==
    { [static |-> TRUE, dynamic |-> TRUE, overlay |-> TRUE],
      [static |-> FALSE, dynamic |-> TRUE, overlay |-> TRUE],
      [static |-> TRUE, dynamic |-> FALSE, overlay |-> TRUE],
      [static |-> TRUE, dynamic |-> TRUE, overlay |-> FALSE] }

\* the state after the component has mounted, before its first render()
InitPaint ==
    /\ CacheIdle /\ SchedIdle /\ LodIdle
    /\ renderer \in {"HPR", "ACR", "MOR", "UPR", "OC"}
    /\ objects \in PaintScenes
    /\ viewport = [x |-> 0, y |-> 0, zoom100 |-> 100]
    /\ surface = [width |-> 800, height |-> 600]
    /\ \E d \in PaintDrags : isDragging = d.dragging /\ draggedObjects = d.ids
    /\ isPanning = FALSE
    /\ now = 1000
    /\ lastRenderTime = 0
    /\ lastQuadTreeUpdate = 0
    /\ quadTree = IF renderer = "HPR"
                  THEN rebuild(QuadTreeNew(HPRRoot, RendererMaxObjects, RendererMaxLevels),
                               objects)
                  ELSE QuadTreeNew(ACRRoot, RendererMaxObjects, RendererMaxLevels)
    /\ lastObjectCount = IF renderer = "HPR" THEN Len(objects) ELSE 0
    /\ shouldRebuildQuadTree = TRUE
    /\ painted = FALSE
    /\ drawList = <<>>
    /\ qtBuilt = FALSE /\ qtArg = <<>> /\ qtQueried = FALSE
    /\ qtQuery = Rect(0, 0, 0, 0) /\ qtFound = <<>>
    /\ qtHit = NoHit
    /\ ViewIdle
    /\ selectedIds \in PaintSelections
    /\ contextStatePool = [fillStyle |-> "", strokeStyle |-> "", lineWidth |-> 0,
                           globalAlpha |-> 100, font |-> ""]
    /\ canvasReady = [static |-> TRUE, dynamic |-> TRUE, overlay |-> TRUE]
    /\ frame = NoFrame
    /\ repainted = {}
    /\ previousFrame = NoFrame
    /\ passCount = 0
    /\ staticChanged = TRUE
    /\ staticDue = FALSE
    /\ outlineDivs = SelectionOutlines(objects, selectedIds)

\* what no action of SpecPaint changes
PaintFixed == <<schedVars, lodVars, viewVars, renderer, surface, isPanning, shouldRebuildQuadTree,
                painted, drawList, qtBuilt, qtArg, qtQueried, qtQuery, qtFound, qtHit,
                insertedAt, insertCount, lastHitKey, lastEvicted>>

\* the ids the interaction is moving
Manipulated(dragging, dragged) == IF dragging THEN dragged ELSE {}

\* some object outside the manipulated set differs between two snapshots
RestDiffers(old, new, ids) ==
    {o \in Range(old) : o.id \notin ids} # {o \in Range(new) : o.id \notin ids}

\* Every change of the props is followed by the render() its effect calls: the
\* actions below wait for that call before the next change.

\* the objects prop changes
PaintSetObjects(objs) ==
    /\ passCount > 0
    /\ objs # objects
    /\ objects' = objs
    /\ IF renderer = "HPR"
       THEN /\ quadTree' = rebuild(quadTree, objs)
            /\ lastObjectCount' = Len(objs)
       ELSE UNCHANGED <<quadTree, lastObjectCount>>
    /\ staticChanged' = (staticChanged
                            \/ RestDiffers(objects, objs,
                                           Manipulated(isDragging, draggedObjects)))
    /\ passCount' = 0
    /\ outlineDivs' = SelectionOutlines(objs, selectedIds)
    /\ UNCHANGED <<PaintFixed, viewport, isDragging, now, lastRenderTime,
                   lastQuadTreeUpdate, pathCache, pathCacheKeys, selectedIds,
                   draggedObjects, contextStatePool, canvasReady, frame, repainted,
                   previousFrame, staticDue>>

\* the viewport prop changes
PaintSetViewport(vp) ==
    /\ passCount > 0
    /\ vp # viewport
    /\ viewport' = vp
    /\ staticChanged' = TRUE
    /\ passCount' = 0
    /\ UNCHANGED <<PaintFixed, objects, quadTree, lastObjectCount, isDragging, now,
                   lastRenderTime, lastQuadTreeUpdate, pathCache, pathCacheKeys,
                   selectedIds, draggedObjects, contextStatePool, canvasReady, frame,
                   repainted, previousFrame, staticDue, outlineDivs>>

\* the selectedIds prop changes
PaintSetSelection(sel) ==
    /\ passCount > 0
    /\ sel # selectedIds
    /\ selectedIds' = sel
    /\ staticChanged' = TRUE
    /\ passCount' = 0
    /\ outlineDivs' = SelectionOutlines(objects, sel)
    /\ UNCHANGED <<PaintFixed, objects, quadTree, lastObjectCount, viewport, isDragging,
                   now, lastRenderTime, lastQuadTreeUpdate, pathCache, pathCacheKeys,
                   draggedObjects, contextStatePool, canvasReady, frame, repainted,
                   previousFrame, staticDue>>

\* a drag starts, ends or takes other objects
PaintSetDrag(d) ==
    /\ passCount > 0
    /\ <<d.dragging, d.ids>> # <<isDragging, draggedObjects>>
    /\ isDragging' = d.dragging
    /\ draggedObjects' = d.ids
    /\ staticChanged' = TRUE
    /\ passCount' = 0
    /\ UNCHANGED <<PaintFixed, objects, quadTree, lastObjectCount, viewport, now,
                   lastRenderTime, lastQuadTreeUpdate, pathCache, pathCacheKeys,
                   selectedIds, contextStatePool, canvasReady, frame, repainted,
                   previousFrame, staticDue, outlineDivs>>

\* a canvas ref or its 2d context goes away or comes back
PaintSurfaceChange(ready) ==
    /\ passCount > 0
    /\ ready # canvasReady
    /\ canvasReady' = ready
    /\ staticChanged' = TRUE
    /\ passCount' = 0
    /\ UNCHANGED <<PaintFixed, objects, quadTree, lastObjectCount, viewport, isDragging,
                   now, lastRenderTime, lastQuadTreeUpdate, pathCache, pathCacheKeys,
                   selectedIds, draggedObjects, contextStatePool, frame, repainted,
                   previousFrame, staticDue, outlineDivs>>

\* the index AdvancedCanvasRenderer.getVisibleObjects queries at time now
ACRIndexAt ==
    IF now - lastQuadTreeUpdate > ACRRebuildInterval
    THEN rebuild(quadTree, objects) ELSE quadTree

\* render() of the renderer, past its throttle
RenderPass(f) ==
    CASE renderer = "HPR" -> HPRPaint(f)
      [] renderer = "MOR" -> MORPaint(f)
      [] renderer = "ACR" -> ACRPaint(f, ACRIndexAt)
      [] renderer = "UPR" -> UPRPaint(f)
      [] renderer = "OC" -> OCPaint(f)

\* the state a render() call leaves, given the surfaces it starts from
Rendered(r, before, due) ==
    /\ frame' = r.frame
    /\ repainted' = r.repainted
    /\ contextStatePool' = r.pool
    /\ pathCache' = r.pathCache
    /\ pathCacheKeys' = r.pathCacheKeys
    /\ lastRenderTime' = IF r.ran THEN now ELSE lastRenderTime
    /\ previousFrame' = IF passCount > 0 THEN before ELSE NoFrame
    /\ passCount' = IF passCount < 2 THEN passCount + 1 ELSE 2
    /\ staticDue' = due
    /\ staticChanged' = FALSE
    /\ IF renderer = "ACR"
       THEN /\ quadTree' = ACRIndexAt
            /\ lastQuadTreeUpdate' = IF now - lastQuadTreeUpdate > ACRRebuildInterval
                                     THEN now ELSE lastQuadTreeUpdate
       ELSE UNCHANGED <<quadTree, lastQuadTreeUpdate>>

\* a render() call that gets past its throttle
Paint ==
    /\ now - lastRenderTime >= TargetFrameTime(renderer, isDragging, isPanning, objects)
    /\ Rendered(RenderPass(frame), frame, staticChanged)
    /\ UNCHANGED <<PaintFixed, objects, lastObjectCount, viewport, isDragging, now,
                   selectedIds, draggedObjects, canvasReady, outlineDivs>>

\* the canvases the renderer owns
Surfaces(r) ==
    CASE r \in {"HPR", "MOR"} -> {"dynamic"}
      [] r = "OC" -> {"static", "dynamic"}
      [] OTHER -> {"static", "dynamic", "overlay"}

\* the window's resize event: every canvas that exists gets its new size, which
\* clears it, and render() is called
PaintResize ==
    LET cleared == [x \in {"static", "dynamic", "overlay"} |->
                       IF x \in Surfaces(renderer) /\ canvasReady[x]
                       THEN <<>> ELSE frame[x]]
    IN IF now - lastRenderTime >= TargetFrameTime(renderer, isDragging, isPanning, objects)
       THEN /\ Rendered(RenderPass(cleared), frame, TRUE)
            /\ UNCHANGED <<PaintFixed, objects, lastObjectCount, viewport, isDragging,
                           now, selectedIds, draggedObjects, canvasReady, outlineDivs>>
       ELSE /\ frame' = cleared
            /\ repainted' = {}
            /\ passCount' = 0
            /\ staticChanged' = TRUE
            /\ UNCHANGED <<PaintFixed, qtVars, viewport, isDragging, now, lastRenderTime,
                           lastQuadTreeUpdate, lastObjectCount, pathCache, pathCacheKeys,
                           selectedIds, draggedObjects, contextStatePool, canvasReady,
                           previousFrame, staticDue, outlineDivs>>

\* a frame interval passes after a render()
PaintTick ==
    /\ now = lastRenderTime
    /\ now < 1000 + 40 * PaintMaxTicks
    /\ now' = now + 40
    /\ UNCHANGED <<PaintFixed, qtVars, paintVars, viewport, isDragging, lastRenderTime,
                   lastQuadTreeUpdate, lastObjectCount, pathCache, pathCacheKeys>>

NextPaint ==
    \/ \E objs \in PaintScenes : PaintSetObjects(objs)
    \/ \E vp \in PaintViewports : PaintSetViewport(vp)
    \/ \E sel \in PaintSelections : PaintSetSelection(sel)
    \/ \E d \in PaintDrags : PaintSetDrag(d)
    \/ \E ready \in PaintSurfaces : PaintSurfaceChange(ready)
    \/ Paint
    \/ PaintResize
    \/ PaintTick

SpecPaint == InitPaint /\ [][NextPaint]_vars


\* the object of the snapshot with the given id
ObjectOf(id) == CHOOSE o \in Range(objects) : o.id = id

\* the draw calls on the surfaces the last render() painted
FreshDraws ==
    UNION {Range(frame[x]) : x \in repainted}

\* C11: a second render() with the same objects, viewport, selection,
\* interaction state and surfaces leaves every surface as the first one left
\* it: the same draw calls in the same order with the same opacity, fill and
\* stroke, on every surface it paints.
C11_PaintIdempotent ==
    passCount = 2 => \A x \in repainted : frame[x] = previousFrame[x]

\* C11 for the renderers that assign the context state directly
C11_DirectRenderersIdempotent ==
    (renderer # "ACR" /\ passCount = 2) =>
        \A x \in repainted : frame[x] = previousFrame[x]

\* C12: a hidden object is in no index after a rebuild and is painted on no
\* surface, whatever its selection or drag state.
C12_HiddenNeverPainted ==
    /\ \A o \in IndexContents(quadTree.root) : o.visible
    /\ passCount > 0 =>
           \A d \in FreshDraws :
               d.what = "object" =>
                   \E o \in Range(objects) : o.id = d.id /\ o.visible

\* C12 for every renderer but OptimizedCanvas
C12_HiddenNeverPaintedButOC ==
    (renderer # "OC" /\ passCount > 0) =>
        \A d \in FreshDraws :
            d.what = "object" => \E o \in Range(objects) : o.id = d.id /\ o.visible

\* Full detail: past the renderer's small tiers
FullDetail(o) ==
    IF renderer = "HPR" THEN screenSize100(o, viewport.zoom100) >= 800
    ELSE screenSize100(o, viewport.zoom100) >= 200

\* the draws of one object on a surface, in order
DrawsOf(x, id) == SelectSeq(frame[x], LAMBDA d : d.what = "object" /\ d.id = id)

\* fill then stroke from the cached path of the object's signature
CachedFillThenStroke(o, draws) ==
    LET wantFill == o.style.fill # "transparent"
        wantStroke == o.style.strokeWidth > 0 /\ o.style.stroke # "transparent"
        expected == (IF wantFill THEN <<"fill">> ELSE <<>>)
                    \o (IF wantStroke THEN <<"stroke">> ELSE <<>>)
    IN /\ [i \in 1..Len(draws) |-> draws[i].op] = expected
       /\ \A i \in 1..Len(draws) : draws[i].path = generatePathKey(o)

\* C14: every visible rectangle or ellipse at Full detail is filled and then
\* stroked, as its style asks, from the cached path of its signature, on the
\* surface it is assigned to (HighPerformanceRenderer, UltraPerformanceRenderer).
C14_FullShapesPaintedFromCache ==
    (renderer \in {"HPR", "UPR"} /\ passCount > 0 /\ "dynamic" \in repainted) =>
        \A o \in Range(objects) :
            (o.visible /\ o.type \in {"rectangle", "circle"} /\ FullDetail(o)) =>
                CachedFillThenStroke(o, DrawsOf("dynamic", o.id))

\* C14 for HighPerformanceRenderer alone, with the cache holding the signature
C14_HPRPaintsFromCache ==
    (renderer = "HPR" /\ passCount > 0 /\ "dynamic" \in repainted) =>
        \A o \in Range(objects) :
            (o.visible /\ o.type \in {"rectangle", "circle"} /\ FullDetail(o)) =>
                /\ CachedFillThenStroke(o, DrawsOf("dynamic", o.id))
                /\ Has(pathCache, generatePathKey(o))

\* a draw call made under the object's own style
OwnStyle(d, o) ==
    /\ d.globalAlpha = o.style.opacity
    /\ IF d.op \in {"stroke", "strokeRect"}
       THEN d.paint = o.style.stroke /\ d.lineWidth = o.style.strokeWidth
       ELSE d.paint = o.style.fill

\* C15: every fill and stroke of an object is made with the context's opacity,
\* fill colour, stroke colour and line width equal to the object's own style.
C15_DrawnWithOwnStyle ==
    passCount > 0 =>
        \A d \in FreshDraws :
            (d.what = "object" /\ \E o \in Range(objects) : o.id = d.id)
                => OwnStyle(d, ObjectOf(d.id))

\* C15 for the renderers that assign the context state directly
C15_DirectRenderersOwnStyle ==
    (renderer # "ACR" /\ passCount > 0) =>
        \A d \in FreshDraws :
            (d.what = "object" /\ \E o \in Range(objects) : o.id = d.id)
                => OwnStyle(d, ObjectOf(d.id))

\* C18: during a drag, a render() before which only dragged objects changed
\* (same viewport, same other objects, same selection and surfaces) repaints
\* the dynamic surface and leaves the static surface untouched
\* (OptimizedCanvas, AdvancedCanvasRenderer).
C18_StaticUntouchedByDragFrame ==
    (renderer \in {"OC", "ACR"} /\ passCount = 1 /\ isDragging /\ ~staticDue) =>
        /\ "static" \notin repainted
        /\ canvasReady.dynamic => "dynamic" \in repainted

\* C18 for AdvancedCanvasRenderer alone, which never paints its static surface
C18_ACRStaticUntouched ==
    (renderer = "ACR" /\ passCount > 0) =>
        /\ "static" \notin repainted
        /\ canvasReady.dynamic => "dynamic" \in repainted

\* the selected ids whose object is a visible object of the snapshot
SelectedVisible ==
    {id \in Range(selectedIds) : \E o \in Range(objects) : o.id = id /\ o.visible}

\* the ids a render() stroked an outline for
OutlinedIds == {d.id : d \in {e \in FreshDraws : e.what = "outline"}}

\* the surface the renderer strokes its outlines on
OutlineSurface == IF renderer \in {"ACR", "UPR"} THEN "overlay" ELSE "dynamic"

\* C19: an outline is drawn for an object if and only if its id is selected
\* and the object is a visible object of the snapshot, by the SelectionOutlines
\* component and by the renderers' own outline passes.
C19_OutlineIffSelectedVisible ==
    /\ Range(outlineDivs) = SelectedVisible
    /\ (passCount > 0 /\ OutlineSurface \in repainted) => OutlinedIds = SelectedVisible

\* C19 for the outline passes of the canvas renderers other than OptimizedCanvas
C19_CanvasOutlines ==
    (renderer # "OC" /\ passCount > 0 /\ OutlineSurface \in repainted)
        => OutlinedIds = SelectedVisible

\* C20: a render() paints no surface that is unavailable and still paints the
\* dynamic surface when that one is available.
C20_AvailableSurfacesPainted ==
    passCount > 0 =>
        /\ \A x \in repainted : canvasReady[x]
        /\ canvasReady.dynamic => "dynamic" \in repainted

\* C20 for every renderer but OptimizedCanvas
C20_AvailableSurfacesPaintedButOC ==
    (renderer # "OC" /\ passCount > 0) =>
        /\ \A x \in repainted : canvasReady[x]
        /\ canvasReady.dynamic => "dynamic" \in repainted

-----------------------------------------------------------------------------
(* The useViewport hook (hooks/useViewport) with the wheel and keyboard     *)
(* handlers of InfiniteCanvas, and the overlays positioned from the         *)
(* viewport: SelectionOutlines, the selection box and ResizeHandles.        *)
(* The zoom is kept in hundredths and the pan in pixels, quotients rounded  *)
(* down; overlay positions are in hundredths of a pixel and exact.          *)

ZoomMin == 10           \* Math.max(0.1, ...)
ZoomMax == 500          \* Math.min(5, ...)
ZoomDuration == 200     \* const duration of animateZoom
PanDuration == 300      \* const duration of animatePan

ViewMaxEvents == 2      \* zoomTo and panTo calls in one behaviour
ViewHorizon == 300      \* the clock runs this far

\* 1 - Math.pow(1 - progress, 3) with progress = Math.min(elapsed / duration, 1),
\* as the fraction EaseNum / EaseDen; times are multiples of 10 ms
EaseDen(duration) == (duration \div 10) * (duration \div 10) * (duration \div 10)
EaseNum(elapsed, duration) ==
    LET d == duration \div 10
        r == d - (Min(elapsed, duration) \div 10)
    IN d * d * d - r * r * r

\* start + (target - start) * easeProgress
Interpolate(start, target, elapsed, duration) ==
    start + ((target - start) * EaseNum(elapsed, duration)) \div EaseDen(duration)

\* setViewport(prev => ({ ...prev, ...updates })) with updates {x, y}
updateViewportXY(prev, x, y) == [prev EXCEPT !.x = x, !.y = y]

\* what a call of the hook leaves: the state and the pending animation frame
ViewResult(vp, anim) == [viewport |-> vp, animation |-> anim]

\* panTo(x, y, animate) of the render that saw the viewport hv, called at time t
panTo(hv, vp, anim, t, x, y, animate) ==
    IF animate
    THEN ViewResult(vp, [kind |-> "pan",
                         start |-> [x |-> hv.x, y |-> hv.y, zoom100 |-> hv.zoom100],
                         target |-> [x |-> x, y |-> y, zoom100 |-> hv.zoom100],
                         startTime |-> t])
    ELSE ViewResult(updateViewportXY(vp, x, y), anim)

\* zoomTo(zoom, centerX, centerY, animate); centre is <<>> when a centre
\* coordinate is undefined
zoomTo(hv, vp, anim, t, zoom100, centre, animate) ==
    LET clampedZoom == Max(ZoomMin, Min(ZoomMax, zoom100)) IN
    IF centre # <<>>
    THEN LET newX == centre[1] - ((centre[1] - hv.x) * clampedZoom) \div hv.zoom100
             newY == centre[2] - ((centre[2] - hv.y) * clampedZoom) \div hv.zoom100
             target == [x |-> newX, y |-> newY, zoom100 |-> clampedZoom]
         IN IF animate
            THEN ViewResult(vp, [kind |-> "zoom", start |-> hv, target |-> target,
                                 startTime |-> t])
            ELSE ViewResult(target, anim)
    ELSE ViewResult([vp EXCEPT !.zoom100 = clampedZoom], anim)

\* animatePan(currentTime)
animatePan(vp, anim, currentTime) ==
    LET elapsed == currentTime - anim.startTime
        currentX == Interpolate(anim.start.x, anim.target.x, elapsed, PanDuration)
        currentY == Interpolate(anim.start.y, anim.target.y, elapsed, PanDuration)
    IN ViewResult(updateViewportXY(vp, currentX, currentY),
                  IF elapsed < PanDuration THEN anim ELSE NoAnimation)

\* animateZoom(currentTime)
animateZoom(vp, anim, currentTime) ==
    LET elapsed == currentTime - anim.startTime
        currentX == Interpolate(anim.start.x, anim.target.x, elapsed, ZoomDuration)
        currentY == Interpolate(anim.start.y, anim.target.y, elapsed, ZoomDuration)
        currentZoom == Interpolate(anim.start.zoom100, anim.target.zoom100, elapsed,
                                   ZoomDuration)
    IN ViewResult([x |-> currentX, y |-> currentY, zoom100 |-> currentZoom],
                  IF elapsed < ZoomDuration THEN anim ELSE NoAnimation)

\* screenToWorld, in pixels
screenToWorld(vp, screenX, screenY) ==
    [x |-> ((screenX - vp.x) * 100) \div vp.zoom100,
     y |-> ((screenY - vp.y) * 100) \div vp.zoom100]

\* worldToScreen, in hundredths of a pixel
worldToScreen(vp, worldX, worldY) ==
    [x |-> worldX * vp.zoom100 + 100 * vp.x,
     y |-> worldY * vp.zoom100 + 100 * vp.y]

\* SelectionOutlines: the div of one selected object
SelectionOutlineDiv(obj, vp) ==
    [left |-> (obj.bounds.x + obj.transform.x - vp.x) * vp.zoom100 - 200,
     top |-> (obj.bounds.y + obj.transform.y - vp.y) * vp.zoom100 - 200,
     width |-> obj.bounds.width * vp.zoom100 + 400,
     height |-> obj.bounds.height * vp.zoom100 + 400]

\* InfiniteCanvas: the div of the selection box, a world-space rectangle
SelectionBoxDiv(box, vp) ==
    [left |-> (box.x - vp.x) * vp.zoom100,
     top |-> (box.y - vp.y) * vp.zoom100,
     width |-> box.width * vp.zoom100,
     height |-> box.height * vp.zoom100]

\* ResizeHandles: the north-west handle, handleOffset = 4
ResizeHandleNW(obj, vp) ==
    LET screenPos == worldToScreen(vp, obj.bounds.x, obj.bounds.y) IN
    [x |-> screenPos.x - 400, y |-> screenPos.y - 400]

\* the selected object and the selection box of the overlays
ViewObject == Obj(1, 100, 200, 50, 40, 0, 0, TRUE, 0)
ViewSelectionBox == Rect(20, 30, 200, 100)

\* the centre of the window and the place of the mouse
ViewCentre == <<400, 300>>

InitView ==
    /\ renderer = "none"
    /\ viewport = DEFAULT_VIEWPORT
    /\ surface = [width |-> 800, height |-> 600]
    /\ isDragging = FALSE
    /\ isPanning = FALSE
    /\ now = 0
    /\ lastRenderTime = 0
    /\ SelIdle /\ CacheIdle /\ SchedIdle /\ LodIdle /\ PaintIdle
    /\ quadTree = QuadTreeNew(HPRRoot, RendererMaxObjects, RendererMaxLevels)
    /\ objects = <<ViewObject>>
    /\ qtBuilt = FALSE /\ qtArg = <<>> /\ qtQueried = FALSE
    /\ qtQuery = Rect(0, 0, 0, 0) /\ qtFound = <<>>
    /\ qtHit = NoHit
    /\ ViewIdle

ViewFrame == <<qtVars, selVars, cacheVars, schedVars, lodVars, paintVars, renderer,
               surface, isDragging, isPanning, lastRenderTime>>

SetView(res) ==
    /\ viewport' = res.viewport
    /\ animation' = res.animation
    /\ viewEvents' = viewEvents + 1

\* a call zoomTo(zoom, centre, animate) of the last render's callback
ZoomTo(zoom100, centre, animate) ==
    /\ viewEvents < ViewMaxEvents
    /\ SetView(zoomTo(handlerViewport, viewport, animation, now, zoom100, centre, animate))
    /\ UNCHANGED <<ViewFrame, now, handlerViewport, overlays, earlyFrame>>

\* handleWheel: zoomTo(viewport.zoom * (1 + deltaY * -0.001), mouseX, mouseY, false)
HandleWheel(deltaY) ==
    /\ viewEvents < ViewMaxEvents
    /\ SetView(zoomTo(handlerViewport, viewport, animation, now,
                      (handlerViewport.zoom100 * (1000 - deltaY)) \div 1000,
                      ViewCentre, FALSE))
    /\ UNCHANGED <<ViewFrame, now, handlerViewport, overlays, earlyFrame>>

\* handleKeyDown with Ctrl: "0" resets, "=" zooms in, "-" zooms out, animated
HandleZoomKey(key) ==
    /\ viewEvents < ViewMaxEvents
    /\ SetView(zoomTo(handlerViewport, viewport, animation, now,
                      CASE key = "0" -> 100
                        [] key = "=" -> (handlerViewport.zoom100 * 12) \div 10
                        [] key = "-" -> (handlerViewport.zoom100 * 10) \div 12,
                      ViewCentre, TRUE))
    /\ UNCHANGED <<ViewFrame, now, handlerViewport, overlays, earlyFrame>>

\* handleKeyDown with an arrow key: panTo(viewport.x + panStep, viewport.y, animate)
HandleArrowKey(animate) ==
    /\ viewEvents < ViewMaxEvents
    /\ SetView(panTo(handlerViewport, viewport, animation, now,
                     handlerViewport.x + 50, handlerViewport.y, animate))
    /\ UNCHANGED <<ViewFrame, now, handlerViewport, overlays, earlyFrame>>

\* the browser runs the pending animation frame; the timestamp it passes is the
\* start of the frame, which lies skew ms before the clock
FireAnimationFrame(skew) ==
    /\ animation.kind # "none"
    /\ LET res == IF animation.kind = "pan"
                  THEN animatePan(viewport, animation, now - skew)
                  ELSE animateZoom(viewport, animation, now - skew)
       IN /\ viewport' = res.viewport
          /\ animation' = res.animation
    /\ earlyFrame' = (earlyFrame \/ now - skew < animation.startTime)
    /\ UNCHANGED <<ViewFrame, now, handlerViewport, overlays, viewEvents>>

\* React renders InfiniteCanvas with the current state: the callbacks are
\* created anew and the overlays are positioned
RenderView ==
    /\ handlerViewport' = viewport
    /\ overlays' =
          LET outline == SelectionOutlineDiv(ViewObject, viewport)
              box == SelectionBoxDiv(ViewSelectionBox, viewport)
              handle == ResizeHandleNW(ViewObject, viewport)
          IN [rendered |-> TRUE,
              outlineLeft |-> outline.left, outlineTop |-> outline.top,
              outlineWidth |-> outline.width,
              boxLeft |-> box.left, boxTop |-> box.top,
              handleLeft |-> handle.x, handleTop |-> handle.y]
    /\ UNCHANGED <<ViewFrame, now, viewport, animation, viewEvents, earlyFrame>>

\* time passes while an animation frame is pending (the hook reads the clock
\* only for its animations)
ViewTick ==
    /\ animation.kind # "none"
    /\ now + 100 <= ViewHorizon
    /\ now' = now + 100
    /\ UNCHANGED <<ViewFrame, viewport, viewVars>>

NextView ==
    \/ \E z \in {5, 700} : ZoomTo(z, <<>>, FALSE)
    \/ \E z \in {5, 700} : ZoomTo(z, ViewCentre, TRUE)
    \/ \E deltaY \in {-100, 2000} : HandleWheel(deltaY)
    \/ \E key \in {"0", "=", "-"} : HandleZoomKey(key)
    \/ \E animate \in BOOLEAN : HandleArrowKey(animate)
    \/ \E skew \in {0, 10} : FireAnimationFrame(skew)
    \/ RenderView
    \/ ViewTick

SpecView == InitView /\ [][NextView]_vars

\* C23: viewport.zoom is within [0.1, 5] after every zoomTo, panTo, wheel and
\* keyboard action and in every frame of an animation.
C23_ZoomWithinLimits ==
    viewport.zoom100 >= ZoomMin /\ viewport.zoom100 <= ZoomMax

\* C23 as long as no animation frame got a timestamp before its animation's start
C23_WithinLimitsUnlessEarlyFrame ==
    ~earlyFrame => C23_ZoomWithinLimits

\* C28: the selection outline, the selection box and the resize handles are
\* placed at worldToScreen of their world coordinates, the outline 2 px and
\* the handle 4 px before it, for every pan and zoom.
C28_OverlaysAtWorldToScreen ==
    overlays.rendered =>
        LET vp == handlerViewport
            b == objBounds(ViewObject)
            corner == worldToScreen(vp, b.x, b.y)
            boxCorner == worldToScreen(vp, ViewSelectionBox.x, ViewSelectionBox.y)
        IN /\ overlays.outlineLeft = corner.x - 200
           /\ overlays.outlineTop = corner.y - 200
           /\ overlays.boxLeft = boxCorner.x
           /\ overlays.boxTop = boxCorner.y
           /\ overlays.handleLeft = corner.x - 400
           /\ overlays.handleTop = corner.y - 400

\* C28 for the resize handles alone, with the inverse: screenToWorld takes the
\* screen place of a world point back to it where that place is a whole pixel
C28_HandlesAtWorldToScreen ==
    overlays.rendered =>
        LET vp == handlerViewport
            b == ViewObject.bounds
            corner == worldToScreen(vp, b.x, b.y)
        IN /\ overlays.handleLeft = corner.x - 400
           /\ overlays.handleTop = corner.y - 400
           /\ (vp.zoom100 # 0 /\ corner.x % 100 = 0 /\ corner.y % 100 = 0)
                 => screenToWorld(vp, corner.x \div 100, corner.y \div 100)
                        = [x |-> b.x, y |-> b.y]

====
